---- MODULE Spec2Model ----
(***************************************************************************)
(* A model of the weaver-backend scrape orchestration: the Flask handlers  *)
(* of app/routes.py (start_scrape, get_job_progress) over the in-memory    *)
(* job tracker `jobs`, and YCombinatorScraper of app/scraper/scraper.py    *)
(* (browser_context, scrape_job_listings, scrape_job_details, scrape).     *)
(* Single calls of listing discovery (scraper.py and simple_scraper.py), of *)
(* link extraction (extract_linkedin_urls) and of the with_retry wrapper   *)
(* (app/utils/retry_handler.py) have specifications of their own.          *)
(* Every call into Flask, logging or playwright is an external call that   *)
(* either returns or raises; the model chooses the outcome.                *)
(***************************************************************************)
EXTENDS Integers, Sequences, FiniteSets, TLC

\* ---------------------------------------------------------------- bounds
\* Number of request handlers of start_scrape the server can run.
MaxRuns == 2
\* Number of anchors on a listing page.
MaxAnchors == 2
\* Number of anchors on the listing page of a single call of discovery.
MaxDom == 3
\* Number of sections on the detail page of a single call of link extraction.
MaxSections == 2
\* Largest value of Config.MAX_RETRIES a call of with_retry is run with.
MaxRetriesSetting == 4

Runs == 1..MaxRuns
\* The values uuid4 can return; EmptyId is the empty path segment.
JobIds == 1..MaxRuns
\* No job id: the value of a handler's job_id before uuid4 is called, and the
\* empty id of a progress read.
NoJob == 0
EmptyId == NoJob

\* ------------------------------------------------------- program constants
\* scrape_job_details: max_retries = 3, asyncio.sleep(2) between attempts.
max_retries == 3
NAV_RETRY_SLEEP == 2

\* scrape: await asyncio.sleep(1) after a URL whose scrape_job_details
\* returned; Config.REQUEST_DELAY, in seconds.
RATE_LIMIT_SLEEP == 1
REQUEST_DELAY == 1

\* A Python None, and the absent 'error' key of a details dict.
None == "None"

\* ----------------------------------------------------------- the tracker
\* jobs[job_id] = {...} of start_scrape: the record a submission creates.
NewJobRecord_Pending(url) ==
    [status |-> "pending", url |-> url, results |-> None, error |-> None,
     message |-> None]

NewJobRecord(url) ==
    [status |-> "in_progress", url |-> url, results |-> None, error |-> None,
     message |-> None]

\* jobs[job_id].update({...}) of the two success branches: `not results`
\* stores an empty list, otherwise the list the scraper returned.
CompletedUpdate_KeepsStatus(rec, res) ==
    [rec EXCEPT !.results = res, !.message = "scraped"]

CompletedUpdate(rec, res) ==
    IF res = <<>>
    THEN [rec EXCEPT !.status = "completed", !.results = <<>>,
                     !.message = "No job listings found"]
    ELSE [rec EXCEPT !.status = "completed", !.results = res,
                     !.message = "Successfully scraped"]

\* jobs[job_id].update({...}) of the except branch.
ErrorUpdate_NoMessage(rec) ==
    [rec EXCEPT !.status = "error"]

ErrorUpdate(rec) ==
    [rec EXCEPT !.status = "error", !.error = "Error scraping URL"]

\* get_job_progress: the response to a progress read of job_id on tracker t.
ProgressResponse_Default(t, id) ==
    IF id = EmptyId
    THEN [job_id |-> id, code |-> 400, error |-> "Job ID is required",
          status |-> None, data |-> None]
    ELSE IF id \notin DOMAIN t
    THEN [job_id |-> id, code |-> 200, error |-> None,
          status |-> "in_progress", data |-> None]
    ELSE IF t[id].status = "error"
    THEN [job_id |-> id, code |-> 500, error |-> t[id].error,
          status |-> t[id].status, data |-> t[id].results]
    ELSE [job_id |-> id, code |-> 200, error |-> None,
          status |-> t[id].status, data |-> t[id].results]

ProgressResponse_ForgetsFinished(t, id) ==
    IF id \in DOMAIN t /\ t[id].status \in {"completed", "error"}
    THEN [job_id |-> id, code |-> 404, error |-> "Job not found",
          status |-> None, data |-> None]
    ELSE ProgressResponse_Default(t, id)

ProgressResponse(t, id) ==
    IF id = EmptyId
    THEN [job_id |-> id, code |-> 400, error |-> "Job ID is required",
          status |-> None, data |-> None]
    ELSE IF id \notin DOMAIN t
    THEN [job_id |-> id, code |-> 404, error |-> "Job not found",
          status |-> None, data |-> None]
    ELSE IF t[id].status = "error"
    THEN [job_id |-> id, code |-> 500, error |-> t[id].error,
          status |-> t[id].status, data |-> t[id].results]
    ELSE [job_id |-> id, code |-> 200, error |-> None,
          status |-> t[id].status, data |-> t[id].results]

\* start_scrape's checks of the request body, in the code's order: the
\* status code of the rejection, or 0 when the submission is accepted.
\* A body is "raises" (get_json raises), "no_json", "no_url", or the url it
\* carries: one of another site, one of the target site, and one of another
\* host whose name begins with the target's.
OffSiteUrl   == "http://example.com/jobs"
OnSiteUrl    == "https://www.ycombinator.com/jobs"
LookAlikeUrl == "https://www.ycombinator.com.example.net/jobs"
SubmittedUrls == {OffSiteUrl, OnSiteUrl, LookAlikeUrl}

Bodies == {"raises", "no_json", "no_url"} \cup SubmittedUrls

\* str.startswith
StartsWith(str, prefix) ==
    Len(str) >= Len(prefix) /\ SubSeq(str, 1, Len(prefix)) = prefix

TargetPrefix == "https://www.ycombinator.com"

Validate(body) ==
    CASE body = "raises"                 -> 500
      [] body = "no_json"                -> 400
      [] body = "no_url"                 -> 400
      [] ~StartsWith(body, TargetPrefix) -> 400
      [] OTHER                           -> 0

\* app.py: the hosts of the target site, and urlparse(url).netloc for the
\* http(s) URLs above.
ALLOWED_DOMAINS == {"www.ycombinator.com", "ycombinator.com"}

RECURSIVE UpToSlash(_, _)
UpToSlash(str, i) ==
    IF i > Len(str) \/ SubSeq(str, i, i) = "/" THEN SubSeq(str, 1, i - 1)
    ELSE UpToSlash(str, i + 1)

Netloc(url) ==
    IF StartsWith(url, "https://")
    THEN UpToSlash(SubSeq(url, Len("https://") + 1, Len(url)), 1)
    ELSE IF StartsWith(url, "http://")
    THEN UpToSlash(SubSeq(url, Len("http://") + 1, Len(url)), 1)
    ELSE ""

\* ------------------------------------------------------ listing discovery
\* The hrefs an anchor of the listing page can carry, and what the code's
\* string tests say of each.
JobA  == "https://www.ycombinator.com/companies/a/jobs/1"
JobB  == "https://www.ycombinator.com/companies/b/jobs/2"
JobC  == "https://www.ycombinator.com/jobs/role/3"
About == "https://www.ycombinator.com/about"
Mail  == "mailto:jobs@ycombinator.com?subject=/jobs/"
External == "https://example.com/careers"

Hrefs == {JobA, JobB, JobC, About, Mail, External}
HasCompanies(h) == h \in {JobA, JobB}
HasJobs(h)      == h \in {JobA, JobB, JobC, Mail}
StartsWithHttp(h) == h \in {JobA, JobB, JobC, About, External}
HasYcombinator(h) == h \in {JobA, JobB, JobC, About, Mail}

\* An anchor: its href and the element it sits in.
Places == {"plain", "job-listing", "JobListing", "article", "role-job",
           "listitem", "main"}
ListingAnchors ==
    { [href |-> JobA,  place |-> "plain"],
      [href |-> JobB,  place |-> "plain"],
      [href |-> JobC,  place |-> "job-listing"],
      [href |-> About, place |-> "job-listing"],
      [href |-> Mail,  place |-> "article"] }

\* Sequences over S of length at most n.
SeqUpTo(S, n) == UNION { [1..k -> S] : k \in 0..n }

\* The listing pages the environment can serve.
ListingPages == SeqUpTo(ListingAnchors, MaxAnchors)

\* The anchors and pages of a single call of discovery: the same hrefs in
\* further places, and a link that leaves the site.
DiscoveryAnchors ==
    ListingAnchors \cup
    { [href |-> JobA,     place |-> "article"],
      [href |-> JobC,     place |-> "plain"],
      [href |-> External, place |-> "main"] }
DiscoveryPages == SeqUpTo(DiscoveryAnchors, MaxDom)

\* A listing page with incremental loading keeps further batches of anchors
\* behind its load-more control, one batch per trigger; a page without it
\* keeps none. Config.MAX_PAGES is the ceiling the configuration names.
MAX_PAGES == 10
HiddenBatches == { <<>>, << <<[href |-> JobB, place |-> "plain"]>> >> }

\* The selectors of scrape_job_listings, in order.
NumSelectors == 4
SelectorMatches(sel, a) ==
    CASE sel = 1 -> HasCompanies(a.href) /\ HasJobs(a.href)
      [] sel = 2 -> a.place = "job-listing"
      [] sel = 3 -> a.place = "JobListing"
      [] sel = 4 -> a.place = "article" /\ HasJobs(a.href)

\* document.querySelectorAll(selector): the matching anchors in page order.
QuerySelectorAll(dom, sel) ==
    LET Test(a) == SelectorMatches(sel, a) IN SelectSeq(dom, Test)

MapHref(elems) == [k \in 1..Len(elems) |-> elems[k].href]

\* The page.evaluate of scrape_job_listings: the first selector with any
\* element decides; its hrefs are kept when they include '/jobs/'.
RECURSIVE EvaluateJobUrls_Union(_, _)
EvaluateJobUrls_Union(dom, sel) ==
    IF sel > NumSelectors THEN <<>>
    ELSE SelectSeq(MapHref(QuerySelectorAll(dom, sel)), HasJobs)
            \o EvaluateJobUrls_Union(dom, sel + 1)

RECURSIVE EvaluateJobUrls(_, _)
EvaluateJobUrls(dom, sel) ==
    IF sel > NumSelectors THEN <<>>
    ELSE LET elements == QuerySelectorAll(dom, sel) IN
         IF Len(elements) > 0
         THEN SelectSeq(MapHref(elements), HasJobs)
         ELSE EvaluateJobUrls(dom, sel + 1)

\* cleaned_urls: the strings that start with 'http'.
CleanedUrls(job_urls) == SelectSeq(job_urls, StartsWithHttp)

Range(s) == { s[k] : k \in DOMAIN s }

\* list(set(cleaned_urls)): each element once, in an order Python chooses.
ListOfSet(S) ==
    { s \in [1..Cardinality(S) -> S] : Range(s) = S }

\* What scrape_job_listings can return on a page that loaded.
DiscoveredLists_NoDedup(dom) ==
    LET job_urls == EvaluateJobUrls(dom, 1) IN
    IF job_urls = <<>> THEN { <<>> }
    ELSE { CleanedUrls(job_urls) }

DiscoveredLists(dom) ==
    LET job_urls == EvaluateJobUrls(dom, 1) IN
    IF job_urls = <<>> THEN { <<>> }
    ELSE ListOfSet(Range(CleanedUrls(job_urls)))

\* Whether some selector of scrape_job_listings matches an element of dom.
AnySelectorMatches(dom) ==
    \E sel \in 1..NumSelectors : Len(QuerySelectorAll(dom, sel)) > 0

\* simple_scraper.extract_linkedin_urls discovers the detail URLs with its
\* own page.evaluate: ten selectors, in order.
SimpleNumSelectors == 10
SimpleSelectorMatches(sel, a) ==
    CASE sel = 1  -> HasCompanies(a.href) /\ HasJobs(a.href)
      [] sel = 2  -> a.place = "job-listing"
      [] sel = 3  -> a.place = "JobListing"
      [] sel = 4  -> a.place = "article" /\ HasJobs(a.href)
      [] sel = 5  -> HasJobs(a.href)
      [] sel = 6  -> a.place = "role-job"
      [] sel = 7  -> a.place = "listitem"
      [] sel = 8  -> a.place = "main"
      [] sel = 9  -> a.place = "article"
      [] sel = 10 -> TRUE

SimpleQuerySelectorAll(dom, sel) ==
    LET Test(a) == SimpleSelectorMatches(sel, a) IN SelectSeq(dom, Test)

\* The filter of each selector's hrefs: '/jobs/', '/companies/' or
\* 'ycombinator' occurs in the URL.
SimpleLooksLikeJob(h) == HasJobs(h) \/ HasCompanies(h) \/ HasYcombinator(h)

\* The hrefs one selector contributes to allJobUrls.
SimpleSelectorUrls(dom, sel) ==
    SelectSeq(MapHref(SimpleQuerySelectorAll(dom, sel)), SimpleLooksLikeJob)

\* allJobUrls after the loop over the selectors from sel on: every selector
\* is consulted and its URLs are appended.
RECURSIVE SimpleAllJobUrls(_, _)
SimpleAllJobUrls(dom, sel) ==
    IF sel > SimpleNumSelectors THEN <<>>
    ELSE SimpleSelectorUrls(dom, sel) \o SimpleAllJobUrls(dom, sel + 1)

\* [...new Set(urls)]: each element once, in order of first occurrence.
RECURSIVE NewSet(_)
NewSet(urls) ==
    IF urls = <<>> THEN <<>>
    ELSE LET front == NewSet(SubSeq(urls, 1, Len(urls) - 1))
             last  == urls[Len(urls)] IN
         IF last \in Range(front) THEN front ELSE Append(front, last)

\* The page.evaluate of simple_scraper's discovery, with its fallback.
SimpleEvaluateJobUrls(dom) ==
    LET allJobUrls == SimpleAllJobUrls(dom, 1) IN
    IF Len(allJobUrls) > 0 THEN NewSet(allJobUrls)
    ELSE SelectSeq(MapHref(dom), HasJobs)

\* filtered_urls: '/jobs/' in url and url.startswith('http').
SimpleFilteredUrls(job_urls) ==
    LET Keep(h) == HasJobs(h) /\ StartsWithHttp(h) IN SelectSeq(job_urls, Keep)

\* The job_urls simple_scraper goes on to visit.
SimpleDiscoveredLists(dom) ==
    LET job_urls == SimpleEvaluateJobUrls(dom)
        filtered_urls == SimpleFilteredUrls(job_urls) IN
    IF job_urls = <<>> THEN { <<>> }
    ELSE IF filtered_urls # <<>> THEN ListOfSet(Range(filtered_urls))
    ELSE ListOfSet(Range(job_urls))

\* ---------------------------------------------------------------- strings
\* JavaScript's String.includes, toLowerCase and split(' ').
Includes(s, t) ==
    \E i \in 1..(Len(s) - Len(t) + 1) : SubSeq(s, i, i + Len(t) - 1) = t

UpperCase == "ABCDEFGHIJKLMNOPQRSTUVWXYZ"
LowerCase == "abcdefghijklmnopqrstuvwxyz"
LowerChar(c) ==
    IF \E i \in 1..Len(UpperCase) : SubSeq(UpperCase, i, i) = c
    THEN LET i == CHOOSE i \in 1..Len(UpperCase) : SubSeq(UpperCase, i, i) = c
         IN SubSeq(LowerCase, i, i)
    ELSE c

RECURSIVE ToLowerCase(_)
ToLowerCase(s) ==
    IF s = "" THEN ""
    ELSE LowerChar(SubSeq(s, 1, 1)) \o ToLowerCase(SubSeq(s, 2, Len(s)))

RECURSIVE SplitOnSpace(_)
SplitOnSpace(s) ==
    IF ~Includes(s, " ") THEN <<s>>
    ELSE LET i == CHOOSE i \in 1..Len(s) :
                    /\ SubSeq(s, i, i) = " "
                    /\ \A j \in 1..(i - 1) : SubSeq(s, j, j) # " "
         IN <<SubSeq(s, 1, i - 1)>> \o SplitOnSpace(SubSeq(s, i + 1, Len(s)))

\* ---------------------------------------------------------- link extraction
\* An anchor of a detail page: its href attribute as written in the page,
\* which the selector a[href*="linkedin.com"] tests, and its href property,
\* the URL the browser resolved the attribute to, which the code collects.
LiJane  == [attr |-> "https://www.linkedin.com/in/jane-doe",
            href |-> "https://www.linkedin.com/in/jane-doe"]
LiJANE  == [attr |-> "https://www.linkedin.com/in/JANE",
            href |-> "https://www.linkedin.com/in/JANE"]
LiBob   == [attr |-> "https://www.linkedin.com/in/bsmith",
            href |-> "https://www.linkedin.com/in/bsmith"]
LiAcme  == [attr |-> "https://www.linkedin.com/company/acme",
            href |-> "https://www.linkedin.com/company/acme"]
Twitter == [attr |-> "https://twitter.com/acme",
            href |-> "https://twitter.com/acme"]
\* The browser removes the dot segment when it resolves the attribute.
Dotted  == [attr |-> "https://acme.com/linkedin.com/../team",
            href |-> "https://acme.com/team"]

\* A section of the detail page: its class attribute, the text of its h3
\* elements, its anchors. Sections follow each other in document order.
Sections ==
    { [class |-> "Founders",     h3 |-> <<"Jane Doe">>,  links |-> <<LiJane>>],
      [class |-> "Founders",     h3 |-> <<"Jane Doe">>,  links |-> <<>>],
      [class |-> "founder-card", h3 |-> <<"Bob Smith">>, links |-> <<LiBob>>],
      [class |-> "founder-card", h3 |-> <<"Al Li", "">>, links |-> <<Twitter>>],
      [class |-> "Founder",      h3 |-> <<>>,            links |-> <<Dotted>>],
      [class |-> "company",      h3 |-> <<"Acme">>,      links |-> <<LiAcme, LiJane>>],
      [class |-> "footer",       h3 |-> <<>>,            links |-> <<LiJANE, LiBob, LiAcme>>] }

\* The detail pages the environment can serve to link extraction.
DetailDocs == SeqUpTo(Sections, MaxSections)

\* The concatenation of a sequence of sequences.
RECURSIVE Flatten(_)
Flatten(ss) == IF ss = <<>> THEN <<>> ELSE Head(ss) \o Flatten(Tail(ss))

\* '.Founders h3, [class*="founder"] h3, .Founder h3': the sections whose h3
\* elements are founder names.
HoldsFounderNames(sec) ==
    sec.class = "Founders" \/ Includes(sec.class, "founder") \/ sec.class = "Founder"

\* founderNames: the trimmed text of those h3 elements, in document order.
founderNames(doc) ==
    Flatten([k \in 1..Len(doc) |->
               IF HoldsFounderNames(doc[k]) THEN doc[k].h3 ELSE <<>>])

\* isFounderUrl(url, names)
isFounderUrl_AnyLength(url, names) ==
    /\ url # "" /\ names # <<>>
    /\ LET lowerUrl == ToLowerCase(url) IN
       \E n \in 1..Len(names) :
         /\ names[n] # ""
         /\ LET nameParts == SplitOnSpace(ToLowerCase(names[n])) IN
            \E k \in 1..Len(nameParts) :
              Len(nameParts[k]) > 0 /\ Includes(lowerUrl, nameParts[k])

isFounderUrl(url, names) ==
    /\ url # "" /\ names # <<>>
    /\ LET lowerUrl == ToLowerCase(url) IN
       \E n \in 1..Len(names) :
         /\ names[n] # ""
         /\ LET nameParts == SplitOnSpace(ToLowerCase(names[n])) IN
            \E k \in 1..Len(nameParts) :
              Len(nameParts[k]) > 2 /\ Includes(lowerUrl, nameParts[k])

\* '.Founders, [class*="founder"], [class*="Founder"]'
IsFoundersSection(sec) ==
    sec.class = "Founders" \/ Includes(sec.class, "founder")
        \/ Includes(sec.class, "Founder")

\* a[href*="linkedin.com"]
IsLinkedinAnchor(a) == Includes(a.attr, "linkedin.com")

\* element.querySelectorAll('a[href*="linkedin.com"]').map(a => a.href)
LinkedinHrefs(anchors) == MapHref(SelectSeq(anchors, IsLinkedinAnchor))

\* foundersSection = document.querySelector(...): the first element that
\* matches, 0 when there is none (null).
foundersSection(doc) ==
    IF \E k \in 1..Len(doc) : IsFoundersSection(doc[k])
    THEN CHOOSE k \in 1..Len(doc) :
           /\ IsFoundersSection(doc[k])
           /\ \A j \in 1..(k - 1) : ~IsFoundersSection(doc[j])
    ELSE 0

founderLinks(doc) ==
    IF foundersSection(doc) # 0
    THEN LinkedinHrefs(doc[foundersSection(doc)].links)
    ELSE <<>>

\* allLinkedinUrls: the hrefs of the document's linkedin anchors that
\* include 'linkedin.com'.
allLinkedinUrls(doc) ==
    LET IsLinkedinUrl(url) == url # "" /\ Includes(url, "linkedin.com") IN
    SelectSeq(LinkedinHrefs(Flatten([k \in 1..Len(doc) |-> doc[k].links])),
              IsLinkedinUrl)

\* founderLinkedinUrls: the links of the founders section, or, when there
\* are none and a name was found, the links that match a name.
founderLinkedinUrls(doc) ==
    IF Len(founderLinks(doc)) = 0 /\ Len(founderNames(doc)) > 0
    THEN LET ByName(url) == isFounderUrl(url, founderNames(doc)) IN
         SelectSeq(allLinkedinUrls(doc), ByName)
    ELSE founderLinks(doc)

\* companyLinkedinUrls: the links founderLinkedinUrls does not include.
companyLinkedinUrls_All(doc) == allLinkedinUrls(doc)

companyLinkedinUrls(doc) ==
    LET NotFounder(url) == url \notin Range(founderLinkedinUrls(doc)) IN
    SelectSeq(allLinkedinUrls(doc), NotFounder)

\* The result dict of extract_linkedin_urls on a page that was evaluated.
LinkedinResult(doc) ==
    [linkedin_urls         |-> allLinkedinUrls(doc),
     founder_linkedin_urls |-> founderLinkedinUrls(doc),
     company_linkedin_urls |-> companyLinkedinUrls(doc),
     founder_names         |-> founderNames(doc),
     error                 |-> None]

\* The dict of the except branch of extract_linkedin_urls.
FailedLinkedinResult(e) ==
    [linkedin_urls |-> <<>>, founder_linkedin_urls |-> <<>>,
     company_linkedin_urls |-> <<>>, founder_names |-> <<>>, error |-> e]

\* ---------------------------------------------------------------- with_retry
\* Config.MAX_RETRIES and Config.RETRY_DELAY (seconds) as the class ships,
\* and the settings a call of the wrapper is run with.
ShippedRetryConfig == [MAX_RETRIES |-> 3, RETRY_DELAY |-> 2]
RetryDelays == {1, ShippedRetryConfig.RETRY_DELAY}
RetryConfigs ==
    [MAX_RETRIES : 1..MaxRetriesSetting, RETRY_DELAY : RetryDelays]

\* What one call of the wrapped function does: it returns a value or raises
\* an instance of a subclass of Exception (a truthy object, as exceptions are
\* unless their class defines __bool__ or __len__).
ReturnValues == {"success", "other"}
Exceptions   == {"ValueError", "KeyError"}

\* for attempt in range(Config.MAX_RETRIES): whether the loop has another
\* iteration.
LoopContinues_OneMore(rt) == rt.attempt <= rt.MAX_RETRIES

LoopContinues(rt) == rt.attempt < rt.MAX_RETRIES

\* if attempt < Config.MAX_RETRIES - 1
SleepsAfter(rt) == rt.attempt < rt.MAX_RETRIES - 1

\* delay = Config.RETRY_DELAY * (2 ** attempt)
Delay_Constant(rt) == rt.RETRY_DELAY

Delay(rt) == rt.RETRY_DELAY * 2^rt.attempt

\* return func(*args, **kwargs), func returning v.
AfterReturn_KeepsGoing(rt, v) ==
    [rt EXCEPT !.outcomes = Append(@, v), !.returned = v, !.attempt = @ + 1]

AfterReturn(rt, v) ==
    [rt EXCEPT !.outcomes = Append(@, v), !.state = "returned", !.returned = v]

\* The except branch, func raising e: the exception is kept, the wrapper
\* sleeps unless this was the last iteration, the loop goes on.
AfterException(rt, e) ==
    [rt EXCEPT !.outcomes = Append(@, e),
               !.last_exception = e,
               !.sleeps = IF SleepsAfter(rt) THEN Append(@, Delay(rt)) ELSE @,
               !.attempt = @ + 1]

\* After the loop: if last_exception: raise last_exception (else the
\* wrapper falls off its end and returns None).
AfterLoop(rt) ==
    IF rt.last_exception # None
    THEN [rt EXCEPT !.state = "raised", !.raised = rt.last_exception]
    ELSE [rt EXCEPT !.state = "returned"]

\* -------------------------------------------------------- detail extraction
\* What document.querySelector(selector) gives for one selector of a field:
\* no element, an exception, or the element's trimmed text ("" when blank).
Absent == "<absent>"
Throws == "<throws>"

\* safeExtract(selectors): the first non-empty value along the list, or ''.
RECURSIVE safeExtract_StopsAtThrow(_)
safeExtract_StopsAtThrow(selectors) ==
    IF selectors = <<>> THEN ""
    ELSE LET v == Head(selectors) IN
         IF v = Throws THEN ""
         ELSE IF v = Absent \/ v = ""
         THEN safeExtract_StopsAtThrow(Tail(selectors))
         ELSE v

RECURSIVE safeExtract(_)
safeExtract(selectors) ==
    IF selectors = <<>> THEN ""
    ELSE LET v == Head(selectors) IN
         IF v = Absent \/ v = Throws \/ v = ""
         THEN safeExtract(Tail(selectors))
         ELSE v

\* The detail pages the environment can serve: per field, the outcome of
\* each selector of the field's list, in the list's order.
PageFull ==
    [title       |-> <<"Engineer", Absent, Absent, Absent, "YC Jobs">>,
     company     |-> <<Absent, Absent, Absent, "Acme">>,
     description |-> <<Absent, Throws, "", "Build things">>,
     location    |-> <<"Remote", Absent, Absent>>,
     salary      |-> <<Absent, Absent, Absent>>]
PageBare ==
    [title       |-> <<Absent, Absent, Absent, Absent, "YC Jobs">>,
     company     |-> <<Absent, Absent, Absent, Absent>>,
     description |-> <<Absent, Absent, Absent, "">>,
     location    |-> <<Absent, Absent, Absent>>,
     salary      |-> <<Absent, Absent, Absent>>]
DetailPages == {PageFull, PageBare}

\* The pages a single evaluate is run on: per field, selector outcomes with
\* hits in first and later places, blanks, throws and misses.
TitleOutcomes ==
    { PageFull.title, PageBare.title,
      <<"", Throws, "Engineer", Absent, "YC Jobs">>,
      <<Absent, Absent, Absent, Absent, Absent>> }
CompanyOutcomes ==
    { PageFull.company, PageBare.company,
      <<Throws, Throws, Throws, Throws>>,
      <<"Acme", "Other Co", Absent, Absent>> }
DescriptionOutcomes ==
    { PageFull.description, PageBare.description,
      <<"Short", Absent, "Long text", "Build things">> }
LocationOutcomes ==
    { PageFull.location, <<Throws, Absent, "Berlin">>, <<"", "", "">> }
SalaryOutcomes ==
    { PageFull.salary, <<Throws, Throws, Throws>>, <<Absent, "$100k", Absent>> }
EvaluatedPages ==
    [title : TitleOutcomes, company : CompanyOutcomes,
     description : DescriptionOutcomes, location : LocationOutcomes,
     salary : SalaryOutcomes]

\* The dict page.evaluate returns in scrape_job_details. `src` is not a key
\* of the dict: it records the URL the record was extracted from.
ExtractedDetails(url, dp) ==
    [src |-> url,
     title       |-> safeExtract(dp.title),
     company     |-> safeExtract(dp.company),
     description |-> safeExtract(dp.description),
     location    |-> safeExtract(dp.location),
     salary      |-> safeExtract(dp.salary),
     error       |-> None]

\* The dict of scrape_job_details' except branch; error is str(e).
FailedDetails_NoError(url, e) ==
    [src |-> url, title |-> "", company |-> "", description |-> "",
     location |-> "", salary |-> "", error |-> None]

FailedDetails(url, e) ==
    [src |-> url, title |-> "", company |-> "", description |-> "",
     location |-> "", salary |-> "", error |-> e]

\* The navigation loop of scrape_job_details over the outcomes of the
\* successive page.goto calls ("ok", "timeout": TimeoutError, "error": any
\* other exception): how it ends, the calls made, the sleeps between them.
GotoOutcomes == {"ok", "timeout", "error"}
RECURSIVE NavigateFrom(_, _)
NavigateFrom(outs, attempt) ==
    LET o == outs[attempt + 1] IN
    IF o = "ok" THEN [result |-> "ok", attempts |-> attempt + 1, sleeps |-> <<>>]
    ELSE IF o = "error"
    THEN [result |-> "error", attempts |-> attempt + 1, sleeps |-> <<>>]
    ELSE IF attempt = max_retries - 1
    THEN [result |-> "timeout", attempts |-> attempt + 1, sleeps |-> <<>>]
    ELSE LET rest == NavigateFrom(outs, attempt + 1) IN
         [rest EXCEPT !.sleeps = <<NAV_RETRY_SLEEP>> \o @]

Navigate(outs) == NavigateFrom(outs, 0)

\* ------------------------------------------------------------------ state
----------------------------------------------------------------------------
\* The two Selenium BrowserManager classes: app/browser/browser_manager.py
\* (get_browser, close) and app/scraper/browser.py (__enter__, close_browser).
\* A manager is [impl, driver, created, quits, closes, raised]: driver is
\* self.driver (NoDriver for None, else the number of the Chrome instance),
\* created counts the instances made, quits lists the instances whose quit()
\* was called, closes counts the calls of close, raised is the exception the
\* last call let out.

MaxDrivers == 2
MaxCloses == 4
NoDriver == 0

ManagerImpls == {"browser_manager", "browser"}

\* What driver.quit() does: returns, raises WebDriverException, or raises an
\* exception of another class (urllib3's MaxRetryError when the chromedriver
\* process is gone).
QuitOutcomes == {"ok", "WebDriverException", "Exception"}

\* What making the browser does: webdriver.Chrome(...) raises, or it returns
\* and implicitly_wait raises, or both return.
OpenOutcomes == {"ok", "chrome_raises", "wait_raises"}

\* get_browser / __enter__: `if self.driver is None: initialize`; driver is
\* assigned before implicitly_wait is called.
OpenManager(m, o) ==
    IF m.driver # NoDriver THEN [m EXCEPT !.raised = None]
    ELSE IF o = "chrome_raises" THEN [m EXCEPT !.raised = "WebDriverException"]
    ELSE [m EXCEPT !.driver = m.created + 1,
                   !.created = m.created + 1,
                   !.raised = IF o = "wait_raises" THEN "WebDriverException"
                              ELSE None]

\* browser_manager.py, BrowserManager.close: try quit, except Exception
\* pass, finally self.driver = None.
BrowserManagerClose(m, o) ==
    IF m.driver = NoDriver
    THEN [m EXCEPT !.closes = @ + 1, !.raised = None]
    ELSE [m EXCEPT !.closes = @ + 1, !.raised = None,
                   !.quits = Append(@, m.driver), !.driver = NoDriver]

\* browser.py, BrowserManager.close_browser: quit and self.driver = None in
\* the try; except WebDriverException sets self.driver = None; an exception
\* of another class leaves the method with self.driver as it was.
BrowserManagerCloseBrowser(m, o) ==
    IF m.driver = NoDriver
    THEN [m EXCEPT !.closes = @ + 1, !.raised = None]
    ELSE IF o \in {"ok", "WebDriverException"}
    THEN [m EXCEPT !.closes = @ + 1, !.raised = None,
                   !.quits = Append(@, m.driver), !.driver = NoDriver]
    ELSE [m EXCEPT !.closes = @ + 1, !.raised = o,
                   !.quits = Append(@, m.driver)]

CloseManager(m, o) ==
    IF m.impl = "browser_manager" THEN BrowserManagerClose(m, o)
    ELSE BrowserManagerCloseBrowser(m, o)

----------------------------------------------------------------------------
\* app.py: the /submit endpoint. A request is [too_large, is_json, body,
\* format]; body is "no_url" or the url it carries, format is "absent" or
\* the value of the 'format' key.

MaxRecords == 2

JobsPageUrl == "http://ycombinator.com/companies/a/jobs"
AboutUrl    == "https://www.ycombinator.com/about"
SubmitBodies == {"no_url", OnSiteUrl, OffSiteUrl, LookAlikeUrl, JobsPageUrl,
                 AboutUrl}
SubmitFormats == {"absent", "csv", "JSON", "xml"}
SubmitRequests ==
    [too_large : BOOLEAN, is_json : BOOLEAN, body : SubmitBodies,
     format : SubmitFormats]

\* urlparse(url).scheme and .path of the http(s) URLs above.
Scheme(url) ==
    IF StartsWith(url, "https://") THEN "https"
    ELSE IF StartsWith(url, "http://") THEN "http"
    ELSE ""

UrlPath(url) ==
    LET rest == SubSeq(url, Len(Scheme(url)) + Len("://") + 1, Len(url))
    IN SubSeq(rest, Len(Netloc(url)) + 1, Len(rest))

\* validate_url
validate_url(url) ==
    /\ Scheme(url) \in {"http", "https"}
    /\ Netloc(url) \in ALLOWED_DOMAINS
    /\ Includes(UrlPath(url), "/jobs")

\* data.get('format', 'csv').lower()
response_format(req) ==
    IF req.format = "absent" THEN "csv" ELSE ToLowerCase(req.format)

\* The objects `YCombinatorScraper()` gives submit_url: the class of
\* scraper.py, or the Mock the tests install.
ScraperClasses == {"YCombinatorScraper", "Mock"}

\* results = scraper.scrape(): what the call raises, or the list returned.
\* The class's method is `async def scrape(self, url)`, so the call without
\* url raises TypeError; a Mock raises its side_effect or returns its
\* return_value, here one record per job the site holds.
ScrapeCall(cls, site, side_effect) ==
    IF cls = "YCombinatorScraper" THEN [raised |-> "TypeError", value |-> <<>>]
    ELSE IF side_effect THEN [raised |-> "Exception", value |-> <<>>]
    ELSE [raised |-> None, value |-> [i \in 1..site |-> "record"]]

\* The responses: `data` is the list under the 'data' key of a JSON body
\* (none in an error body), `csv` the text of a CSV body.
error_response(message, status_code) ==
    [code |-> status_code, error |-> message, data |-> <<>>, csv |-> None,
     content_type |-> "application/json"]

\* submit_url with its request_validation decorator; csv_content is what
\* csv_handler.get_csv_as_string returns.
SubmitResponse(req, cls, site, side_effect, csv_content) ==
    IF req.too_large THEN error_response("Request too large", 413)
    ELSE IF ~req.is_json
    THEN error_response("Content-Type must be application/json", 400)
    ELSE IF req.body = "no_url" THEN error_response("URL is required", 400)
    ELSE IF ~validate_url(req.body)
    THEN error_response("Invalid Y Combinator jobs URL", 400)
    ELSE IF response_format(req) \notin {"csv", "json"}
    THEN error_response("Invalid format. Supported formats: csv, json", 400)
    ELSE LET res == ScrapeCall(cls, site, side_effect) IN
         IF res.raised # None
         THEN error_response("Internal server error", 500)
         ELSE IF res.value = <<>> THEN error_response("No data found", 404)
         ELSE IF response_format(req) = "json"
         THEN [code |-> 200, error |-> None, data |-> res.value,
               csv |-> None, content_type |-> "application/json"]
         ELSE IF csv_content = None
         THEN error_response("Failed to generate CSV", 500)
         ELSE [code |-> 200, error |-> None, data |-> <<>>,
               csv |-> csv_content, content_type |-> "text/csv"]

VARIABLES
    jobs,       \* routes.jobs: job id -> record
    hist,       \* per job id, the values its status has taken, in order
    progress,   \* the response of get_job_progress, when the latest step
                \* was a progress read; NoProgress otherwise
    submissions,\* how many requests the clients still send to start_scrape
    pc,         \* per handler of start_scrape: where it stands
    job_id,     \* per handler: its job_id, NoJob before uuid4
    response,   \* per handler: the response it returned
    scraper,    \* per handler: playwright, browser, context of its scraper
    open_pages, \* per handler: pages of its context opened and not closed
    job_urls,   \* per handler: what scrape_job_listings returned
    idx,        \* per handler: position of scrape's loop in job_urls
    results,    \* per handler: scrape's results list
    details,    \* per handler: the dict scrape_job_details is returning
    trace,      \* per handler: what happened in its run
    discovery,  \* one call of listing discovery: the page and what it returned
    extraction, \* one call of link extraction: the page and its record
    retry,      \* one call of a with_retry wrapper: its loop and its effects
    manager,    \* one Selenium BrowserManager object and the calls made on it
    submit,     \* one request to /submit of app.py and its response
    evaluation, \* one page.evaluate of scrape_job_details: the page and the dict
    session,    \* one YCombinatorScraper through one browser_context, with _get_page calls
    linkedin    \* one call of scrape_linkedin_urls: its loop over job_urls

vars == <<jobs, hist, progress, submissions, pc, job_id, response, scraper, open_pages,
          job_urls, idx, results, details, trace, discovery, extraction, retry,
          manager,
          submit,
          evaluation,
          session,
          linkedin>>

handlerVars == <<pc, job_id, response>>
scraperVars == <<scraper, open_pages, job_urls, idx, results, details, trace>>
trackerVars == <<jobs, hist>>
\* The variables of the single-call specifications below.
unitVars == <<discovery, extraction, retry, manager, submit, evaluation, session, linkedin>>
serverVars == <<jobs, hist, progress, submissions, pc, job_id, response, scraper,
                open_pages, job_urls, idx, results, details, trace>>

NoResponse == [code |-> 0, job_id |-> NoJob]
NoProgress == [job_id |-> NoJob, code |-> 0, error |-> None,
               status |-> None, data |-> None]
NoDetails  == [src |-> None, title |-> "", company |-> "", description |-> "",
               location |-> "", salary |-> "", error |-> None]

\* YCombinatorScraper.__init__: nothing is acquired yet.
NewScraper == [playwright |-> None, browser |-> None, context |-> None]

NewTrace == [constructed |-> FALSE, session |-> "none", listing |-> "none",
             matched |-> FALSE, attempted |-> <<>>, navTimedOut |-> {},
             closeFailed |-> {}, navSleeps |-> <<>>, listingGotos |-> <<>>,
             pauses |-> <<>>, releaseFailed |-> {}, pageClosesFailed |-> 0]

InitState ==
    /\ jobs = << >>
    /\ hist = << >>
    /\ progress = NoProgress
    /\ pc = [r \in Runs |-> "idle"]
    /\ job_id = [r \in Runs |-> NoJob]
    /\ response = [r \in Runs |-> NoResponse]
    /\ scraper = [r \in Runs |-> NewScraper]
    /\ open_pages = [r \in Runs |-> 0]
    /\ job_urls = [r \in Runs |-> <<>>]
    /\ idx = [r \in Runs |-> 0]
    /\ results = [r \in Runs |-> <<>>]
    /\ details = [r \in Runs |-> NoDetails]
    /\ trace = [r \in Runs |-> NewTrace]

\* No call of discovery, link extraction or with_retry under way.
NoDiscovery  == [engine |-> None, dom |-> <<>>, more |-> <<>>, triggers |-> 0,
                 called |-> FALSE, loaded |-> FALSE, job_urls |-> <<>>]
NoExtraction == [doc |-> <<>>, called |-> FALSE,
                 result |-> [linkedin_urls |-> <<>>, founder_linkedin_urls |-> <<>>,
                             company_linkedin_urls |-> <<>>,
                             founder_names |-> <<>>, error |-> None]]
NoRetry      == [MAX_RETRIES |-> ShippedRetryConfig.MAX_RETRIES,
                 RETRY_DELAY |-> ShippedRetryConfig.RETRY_DELAY,
                 state |-> "idle", attempt |-> 0, last_exception |-> None,
                 outcomes |-> <<>>, sleeps |-> <<>>,
                 returned |-> None, raised |-> None]

NoSubmit     == [request |-> None, cls |-> None, site |-> 0,
                 side_effect |-> FALSE, called |-> FALSE,
                 response |-> error_response(None, 0)]
\* A scraper just constructed, outside browser_context, no _get_page call yet.
NoSession == [scraper |-> NewScraper, phase |-> "before", calls |-> <<>>]

\* scrape_linkedin_urls just called: results = [] (line 451).
NoLinkedin == [state |-> "start", job_urls |-> <<>>, i |-> 0, results |-> <<>>,
               outcomes |-> <<>>, returned |-> <<>>]

NoEvaluation == [page |-> PageBare, called |-> FALSE,
                 result |-> ExtractedDetails(None, PageBare)]
NoManager    == [impl |-> None, driver |-> NoDriver, created |-> 0,
                 quits |-> <<>>, closes |-> 0, raised |-> None,
                 phase |-> "idle", entered |-> NoDriver]

\* One submission, handled by one handler.
Init ==
    /\ InitState
    /\ linkedin = NoLinkedin
    /\ session = NoSession
    /\ evaluation = NoEvaluation
    /\ submit = NoSubmit
    /\ submissions = 1
    /\ discovery = NoDiscovery
    /\ extraction = NoExtraction
    /\ retry = NoRetry
    /\ manager = NoManager

\* job_id = str(uuid.uuid4()): an id no earlier call has drawn, hence the
\* id of no record in tracker t.
FreshIds_Any(t) == JobIds

FreshIds(t) == JobIds \ DOMAIN t

\* The tracker with job id's record replaced by rec (dict assignment/update).
Put(t, id, rec) == [k \in DOMAIN t \cup {id} |-> IF k = id THEN rec ELSE t[k]]

\* The status history after the tracker write of rec for job id.
Recorded(h, id, rec) ==
    IF id \notin DOMAIN h THEN Put(h, id, <<rec.status>>)
    ELSE IF h[id][Len(h[id])] = rec.status THEN h
    ELSE Put(h, id, Append(h[id], rec.status))

----------------------------------------------------------------------------
\* routes.py

\* start_scrape up to the creation of the job record (lines 58-86): a
\* rejected body is answered at once, an accepted one gets a fresh uuid and
\* its record.
StartScrape(r) ==
    /\ pc[r] = "idle"
    /\ submissions > 0
    /\ \A q \in Runs : q < r => pc[q] # "idle"
    /\ submissions' = submissions - 1
    /\ \E body \in Bodies :
         IF Validate(body) # 0
         THEN /\ pc' = [pc EXCEPT ![r] = "done"]
              /\ response' = [response EXCEPT
                                ![r] = [code |-> Validate(body), job_id |-> NoJob]]
              /\ UNCHANGED <<job_id, trackerVars>>
         ELSE \E id \in FreshIds(jobs) :
              /\ job_id' = [job_id EXCEPT ![r] = id]
              /\ jobs' = Put(jobs, id, NewJobRecord(body))
              /\ hist' = Recorded(hist, id, NewJobRecord(body))
              /\ pc' = [pc EXCEPT ![r] = "construct"]
              /\ UNCHANGED response
    /\ progress' = NoProgress
    /\ UNCHANGED unitVars
    /\ UNCHANGED scraperVars

\* scraper = YCombinatorScraper() (line 91), outside the inner try: when it
\* raises, the outer except answers 500 without touching the tracker.
ConstructScraper(r) ==
    /\ pc[r] = "construct"
    /\ \/ /\ scraper' = [scraper EXCEPT ![r] = NewScraper]
          /\ trace' = [trace EXCEPT ![r].constructed = TRUE]
          /\ pc' = [pc EXCEPT ![r] = "start_playwright"]
          /\ UNCHANGED response
       \/ /\ pc' = [pc EXCEPT ![r] = "done"]
          /\ response' = [response EXCEPT ![r] = [code |-> 500, job_id |-> NoJob]]
          /\ UNCHANGED <<scraper, trace>>
    /\ progress' = NoProgress
    /\ UNCHANGED unitVars
    /\ UNCHANGED <<submissions, job_id, trackerVars, open_pages, job_urls, idx,
                   results, details>>

\* The tracker write after scraper.scrape returned (lines 97-103, 111-116).
UpdateTracker(r) ==
    /\ pc[r] = "update"
    /\ LET rec == CompletedUpdate(jobs[job_id[r]], results[r]) IN
       /\ jobs' = Put(jobs, job_id[r], rec)
       /\ hist' = Recorded(hist, job_id[r], rec)
    /\ pc' = [pc EXCEPT ![r] = "respond"]
    /\ progress' = NoProgress
    /\ UNCHANGED unitVars
    /\ UNCHANGED <<submissions, job_id, response, scraperVars>>

\* return jsonify({...}) of the success branches (lines 104-109, 118-123),
\* inside the inner try: when it raises, control enters the except branch.
BuildResponse(r) ==
    /\ pc[r] = "respond"
    /\ \/ /\ pc' = [pc EXCEPT ![r] = "done"]
          /\ response' = [response EXCEPT
                            ![r] = [code |-> 200, job_id |-> job_id[r]]]
       \/ /\ pc' = [pc EXCEPT ![r] = "except"]
          /\ UNCHANGED response
    /\ progress' = NoProgress
    /\ UNCHANGED unitVars
    /\ UNCHANGED <<submissions, job_id, trackerVars, scraperVars>>

\* The inner except branch (lines 125-138): the error is written to the
\* record, then the 500 response is built; when that raises too, the outer
\* except answers without a job id.
ScrapeErrorBranch(r) ==
    /\ pc[r] = "except"
    /\ LET rec == ErrorUpdate(jobs[job_id[r]]) IN
       /\ jobs' = Put(jobs, job_id[r], rec)
       /\ hist' = Recorded(hist, job_id[r], rec)
    /\ \E built \in BOOLEAN :
         response' = [response EXCEPT
                        ![r] = [code |-> 500,
                                job_id |-> IF built THEN job_id[r] ELSE NoJob]]
    /\ pc' = [pc EXCEPT ![r] = "done"]
    /\ progress' = NoProgress
    /\ UNCHANGED unitVars
    /\ UNCHANGED <<submissions, job_id, scraperVars>>

\* get_job_progress(job_id): a read of the tracker.
GetJobProgress(id) ==
    /\ progress' = ProgressResponse(jobs, id)
    /\ UNCHANGED <<submissions, trackerVars, handlerVars, scraperVars, unitVars>>

----------------------------------------------------------------------------
\* scraper.py: YCombinatorScraper.scrape, step by step

\* Where the handler goes when an exception reaches the outer except of
\* scrape: it is logged and scrape returns results to start_scrape.
AfterScrapeException_Propagates == "except"

AfterScrapeException == "update"

\* finally: await page.close(), when it returns: one page fewer is open.
ClosePage_Skipped(n) == n

ClosePage(n) == n - 1

\* Where the handler goes when an exception leaves the body of
\* browser_context, or the body ends: the finally block.
Finally == "close_context"

\* Where scrape's loop goes after the URL at idx[r].
AfterUrl_AbortOnFailure(r) ==
    IF details[r].error # None \/ idx[r] + 1 > Len(job_urls[r])
    THEN Finally ELSE "get_detail_page"

AfterUrl(r) ==
    IF idx[r] + 1 > Len(job_urls[r]) THEN Finally ELSE "get_detail_page"

\* browser_context: self.playwright = await async_playwright().start()
StartPlaywright(r) ==
    /\ pc[r] = "start_playwright"
    /\ \/ /\ scraper' = [scraper EXCEPT ![r].playwright = "open"]
          /\ pc' = [pc EXCEPT ![r] = "launch"]
          /\ UNCHANGED trace
       \/ /\ trace' = [trace EXCEPT ![r].session = "failed"]
          /\ pc' = [pc EXCEPT ![r] = Finally]
          /\ UNCHANGED scraper
    /\ progress' = NoProgress
    /\ UNCHANGED unitVars
    /\ UNCHANGED <<submissions, job_id, response, trackerVars, open_pages,
                   job_urls, idx, results, details>>

\* browser_context: self.browser = await self.playwright.chromium.launch(...)
LaunchBrowser(r) ==
    /\ pc[r] = "launch"
    /\ \/ /\ scraper' = [scraper EXCEPT ![r].browser = "open"]
          /\ pc' = [pc EXCEPT ![r] = "new_context"]
          /\ UNCHANGED trace
       \/ /\ trace' = [trace EXCEPT ![r].session = "failed"]
          /\ pc' = [pc EXCEPT ![r] = Finally]
          /\ UNCHANGED scraper
    /\ progress' = NoProgress
    /\ UNCHANGED unitVars
    /\ UNCHANGED <<submissions, job_id, response, trackerVars, open_pages,
                   job_urls, idx, results, details>>

\* browser_context: self.context = await self.browser.new_context(...)
NewContext(r) ==
    /\ pc[r] = "new_context"
    /\ \/ /\ scraper' = [scraper EXCEPT ![r].context = "open"]
          /\ trace' = [trace EXCEPT ![r].session = "opened"]
          /\ pc' = [pc EXCEPT ![r] = "get_listing_page"]
       \/ /\ trace' = [trace EXCEPT ![r].session = "failed"]
          /\ pc' = [pc EXCEPT ![r] = Finally]
          /\ UNCHANGED scraper
    /\ progress' = NoProgress
    /\ UNCHANGED unitVars
    /\ UNCHANGED <<submissions, job_id, response, trackerVars, open_pages,
                   job_urls, idx, results, details>>

\* scrape_job_listings: page = await self._get_page(), before the try: an
\* exception leaves scrape_job_listings and the body of browser_context.
GetListingPage(r) ==
    /\ pc[r] = "get_listing_page"
    /\ \/ /\ scraper[r].context # None
          /\ open_pages' = [open_pages EXCEPT ![r] = @ + 1]
          /\ pc' = [pc EXCEPT ![r] = "load_listing"]
       \/ /\ pc' = [pc EXCEPT ![r] = Finally]
          /\ UNCHANGED open_pages
    /\ progress' = NoProgress
    /\ UNCHANGED unitVars
    /\ UNCHANGED <<submissions, job_id, response, trackerVars, scraper, job_urls,
                   idx, results, details, trace>>

\* scrape_job_listings, the try block: one page.goto, the waits and the
\* evaluate. Any exception (of the goto, or of a later call after the goto
\* returned) is caught and [] returned; otherwise the discovered list.
LoadListing(r) ==
    /\ pc[r] = "load_listing"
    /\ \/ \E o \in GotoOutcomes :
          /\ job_urls' = [job_urls EXCEPT ![r] = <<>>]
          /\ trace' = [trace EXCEPT ![r].listing = "failed",
                                    ![r].listingGotos = <<o>>]
       \/ \E dom \in ListingPages : \E found \in DiscoveredLists(dom) :
          /\ job_urls' = [job_urls EXCEPT ![r] = found]
          /\ trace' = [trace EXCEPT ![r].listing = "loaded",
                                    ![r].listingGotos = <<"ok">>,
                                    ![r].matched = AnySelectorMatches(dom)]
    /\ pc' = [pc EXCEPT ![r] = "close_listing_page"]
    /\ progress' = NoProgress
    /\ UNCHANGED unitVars
    /\ UNCHANGED <<submissions, job_id, response, trackerVars, scraper,
                   open_pages, idx, results, details>>

\* scrape_job_listings, finally: await page.close(); then scrape's
\* `if not job_urls: return []` or the start of its loop.
CloseListingPage(r) ==
    /\ pc[r] = "close_listing_page"
    /\ \/ /\ open_pages' = [open_pages EXCEPT ![r] = ClosePage(@)]
          /\ idx' = [idx EXCEPT ![r] = 1]
          /\ pc' = [pc EXCEPT ![r] = IF job_urls[r] = <<>> THEN Finally
                                     ELSE "get_detail_page"]
          /\ UNCHANGED <<job_urls, trace>>
       \/ /\ job_urls' = [job_urls EXCEPT ![r] = <<>>]
          /\ pc' = [pc EXCEPT ![r] = Finally]
          /\ trace' = [trace EXCEPT ![r].pageClosesFailed = @ + 1]
          /\ UNCHANGED <<open_pages, idx>>
    /\ progress' = NoProgress
    /\ UNCHANGED unitVars
    /\ UNCHANGED <<submissions, job_id, response, trackerVars, scraper, results,
                   details>>

\* scrape_job_details: page = await self._get_page(), before the try: an
\* exception reaches the except of scrape's loop, which continues.
GetDetailPage(r) ==
    /\ pc[r] = "get_detail_page"
    /\ \/ /\ scraper[r].context # None
          /\ open_pages' = [open_pages EXCEPT ![r] = @ + 1]
          /\ pc' = [pc EXCEPT ![r] = "extract_details"]
          /\ UNCHANGED idx
          /\ trace' = [trace EXCEPT
                         ![r].attempted = Append(@, job_urls[r][idx[r]])]
       \/ /\ idx' = [idx EXCEPT ![r] = @ + 1]
          /\ pc' = [pc EXCEPT ![r] = AfterUrl(r)]
          /\ trace' = [trace EXCEPT
                         ![r].attempted = Append(@, job_urls[r][idx[r]]),
                         ![r].pauses = Append(@, 0)]
          /\ UNCHANGED open_pages
    /\ progress' = NoProgress
    /\ UNCHANGED unitVars
    /\ UNCHANGED <<submissions, job_id, response, trackerVars, scraper, job_urls,
                   results, details>>

\* scrape_job_details, the try block (lines 108-200): the navigation loop,
\* the wait for 'main', the evaluate; any exception gives the failed dict.
ExtractDetails(r) ==
    /\ pc[r] = "extract_details"
    /\ LET url == job_urls[r][idx[r]] IN
       \E outs \in [1..max_retries -> GotoOutcomes] :
         LET nav == Navigate(outs) IN
         IF nav.result = "timeout"
         THEN /\ details' = [details EXCEPT ![r] = FailedDetails(url, "Timeout")]
              /\ trace' = [trace EXCEPT ![r].navTimedOut = @ \cup {url},
                                        ![r].navSleeps = nav.sleeps]
         ELSE IF nav.result = "error"
         THEN /\ details' = [details EXCEPT ![r] = FailedDetails(url, "Error")]
              /\ trace' = [trace EXCEPT ![r].navSleeps = nav.sleeps]
         ELSE /\ \/ details' = [details EXCEPT ![r] = FailedDetails(url, "Error")]
                 \/ \E dp \in DetailPages :
                      details' = [details EXCEPT ![r] = ExtractedDetails(url, dp)]
              /\ trace' = [trace EXCEPT ![r].navSleeps = nav.sleeps]
    /\ pc' = [pc EXCEPT ![r] = "close_detail_page"]
    /\ progress' = NoProgress
    /\ UNCHANGED unitVars
    /\ UNCHANGED <<submissions, job_id, response, trackerVars, scraper,
                   open_pages, job_urls, idx, results>>

\* scrape_job_details, finally: await page.close(). When it returns, scrape
\* appends the dict (`if details:`) and sleeps; when it raises, the exception
\* replaces the return value and scrape's except continues with the next URL
\* without the sleep, which is inside the try. trace.pauses has the seconds
\* slept after each URL.
CloseDetailPage(r) ==
    /\ pc[r] = "close_detail_page"
    /\ \/ /\ open_pages' = [open_pages EXCEPT ![r] = ClosePage(@)]
          /\ results' = [results EXCEPT ![r] = Append(@, details[r])]
          /\ trace' = [trace EXCEPT ![r].navSleeps = <<>>,
                                    ![r].pauses = Append(@, RATE_LIMIT_SLEEP)]
       \/ /\ trace' = [trace EXCEPT
                         ![r].closeFailed = @ \cup {job_urls[r][idx[r]]},
                         ![r].navSleeps = <<>>,
                         ![r].pauses = Append(@, 0),
                         ![r].pageClosesFailed = @ + 1]
          /\ UNCHANGED <<open_pages, results>>
    /\ details' = [details EXCEPT ![r] = NoDetails]
    /\ idx' = [idx EXCEPT ![r] = @ + 1]
    /\ pc' = [pc EXCEPT ![r] = AfterUrl(r)]
    /\ progress' = NoProgress
    /\ UNCHANGED unitVars
    /\ UNCHANGED <<submissions, job_id, response, trackerVars, scraper, job_urls>>

\* browser_context, finally: if self.context: await self.context.close().
\* An exception leaves the finally block: scrape's except catches it and
\* scrape returns results.
CloseContext(r) ==
    /\ pc[r] = "close_context"
    /\ IF scraper[r].context = None
       THEN /\ pc' = [pc EXCEPT ![r] = "close_browser"]
            /\ UNCHANGED <<scraper, trace>>
       ELSE \/ /\ scraper' = [scraper EXCEPT ![r].context = "closed"]
               /\ pc' = [pc EXCEPT ![r] = "close_browser"]
               /\ UNCHANGED trace
            \/ /\ pc' = [pc EXCEPT ![r] = AfterScrapeException]
               /\ trace' = [trace EXCEPT ![r].releaseFailed = @ \cup {"context"}]
               /\ UNCHANGED scraper
    /\ progress' = NoProgress
    /\ UNCHANGED unitVars
    /\ UNCHANGED <<submissions, job_id, response, trackerVars, open_pages,
                   job_urls, idx, results, details>>

\* browser_context, finally: if self.browser: await self.browser.close()
CloseBrowser(r) ==
    /\ pc[r] = "close_browser"
    /\ IF scraper[r].browser = None
       THEN /\ pc' = [pc EXCEPT ![r] = "stop_playwright"]
            /\ UNCHANGED <<scraper, trace>>
       ELSE \/ /\ scraper' = [scraper EXCEPT ![r].browser = "closed"]
               /\ pc' = [pc EXCEPT ![r] = "stop_playwright"]
               /\ UNCHANGED trace
            \/ /\ pc' = [pc EXCEPT ![r] = AfterScrapeException]
               /\ trace' = [trace EXCEPT ![r].releaseFailed = @ \cup {"browser"}]
               /\ UNCHANGED scraper
    /\ progress' = NoProgress
    /\ UNCHANGED unitVars
    /\ UNCHANGED <<submissions, job_id, response, trackerVars, open_pages,
                   job_urls, idx, results, details>>

\* browser_context, finally: if self.playwright: await self.playwright.stop();
\* then scrape returns.
StopPlaywright(r) ==
    /\ pc[r] = "stop_playwright"
    /\ IF scraper[r].playwright = None
       THEN UNCHANGED <<scraper, trace>>
       ELSE \/ /\ scraper' = [scraper EXCEPT ![r].playwright = "closed"]
               /\ UNCHANGED trace
            \/ /\ trace' = [trace EXCEPT
                              ![r].releaseFailed = @ \cup {"playwright"}]
               /\ UNCHANGED scraper
    /\ pc' = [pc EXCEPT ![r] = "update"]
    /\ progress' = NoProgress
    /\ UNCHANGED unitVars
    /\ UNCHANGED <<submissions, job_id, response, trackerVars, open_pages,
                   job_urls, idx, results, details>>

----------------------------------------------------------------------------
Next ==
    \/ \E r \in Runs : StartScrape(r)
    \/ \E r \in Runs : ConstructScraper(r)
    \/ \E r \in Runs : StartPlaywright(r)
    \/ \E r \in Runs : LaunchBrowser(r)
    \/ \E r \in Runs : NewContext(r)
    \/ \E r \in Runs : GetListingPage(r)
    \/ \E r \in Runs : LoadListing(r)
    \/ \E r \in Runs : CloseListingPage(r)
    \/ \E r \in Runs : GetDetailPage(r)
    \/ \E r \in Runs : ExtractDetails(r)
    \/ \E r \in Runs : CloseDetailPage(r)
    \/ \E r \in Runs : CloseContext(r)
    \/ \E r \in Runs : CloseBrowser(r)
    \/ \E r \in Runs : StopPlaywright(r)
    \/ \E r \in Runs : UpdateTracker(r)
    \/ \E r \in Runs : BuildResponse(r)
    \/ \E r \in Runs : ScrapeErrorBranch(r)
    \/ \E id \in JobIds \cup {EmptyId} : GetJobProgress(id)

Spec == Init /\ [][Next]_vars

----------------------------------------------------------------------------
\* One call of listing discovery on a page the environment serves.

InitDiscovery ==
    /\ InitState
    /\ linkedin = NoLinkedin
    /\ session = NoSession
    /\ evaluation = NoEvaluation
    /\ submit = NoSubmit
    /\ submissions = 0
    /\ extraction = NoExtraction
    /\ retry = NoRetry
    /\ manager = NoManager
    /\ \E dom \in DiscoveryPages : \E more \in HiddenBatches :
         discovery = [NoDiscovery EXCEPT !.dom = dom, !.more = more]

\* YCombinatorScraper.scrape_job_listings(url): the list it returns, [] when
\* anything in its try block raised. The page is evaluated once as loaded;
\* no call clicks or scrolls, so discovery.triggers stays as it is.
ScrapeJobListings ==
    /\ ~discovery.called
    /\ \/ discovery' = [discovery EXCEPT !.engine = "scraper", !.called = TRUE]
       \/ \E found \in DiscoveredLists(discovery.dom) :
            discovery' = [discovery EXCEPT !.engine = "scraper", !.called = TRUE,
                                           !.loaded = TRUE, !.job_urls = found]
    /\ UNCHANGED <<serverVars, extraction, retry, manager, submit, evaluation, session, linkedin>>

\* The discovery of simple_scraper.extract_linkedin_urls(url): the job_urls
\* it goes on to visit, none when the page did not load.
SimpleScraperDiscovery ==
    /\ ~discovery.called
    /\ \/ discovery' = [discovery EXCEPT !.engine = "simple_scraper",
                                          !.called = TRUE]
       \/ \E found \in SimpleDiscoveredLists(discovery.dom) :
            discovery' = [discovery EXCEPT !.engine = "simple_scraper",
                                           !.called = TRUE, !.loaded = TRUE,
                                           !.job_urls = found]
    /\ UNCHANGED <<serverVars, extraction, retry, manager, submit, evaluation, session, linkedin>>

NextDiscovery ==
    \/ ScrapeJobListings
    \/ SimpleScraperDiscovery

SpecDiscovery == InitDiscovery /\ [][NextDiscovery]_vars

----------------------------------------------------------------------------
\* One call of link extraction on a detail page the environment serves.

InitExtraction ==
    /\ InitState
    /\ linkedin = NoLinkedin
    /\ session = NoSession
    /\ evaluation = NoEvaluation
    /\ submit = NoSubmit
    /\ submissions = 0
    /\ discovery = NoDiscovery
    /\ retry = NoRetry
    /\ manager = NoManager
    /\ \E doc \in DetailDocs : extraction = [NoExtraction EXCEPT !.doc = doc]

\* YCombinatorScraper.extract_linkedin_urls(job_url), the page evaluated.
ExtractLinkedinUrls ==
    /\ ~extraction.called
    /\ extraction' = [extraction EXCEPT !.called = TRUE,
                                        !.result = LinkedinResult(extraction.doc)]
    /\ UNCHANGED <<serverVars, discovery, retry, manager, submit, evaluation, session, linkedin>>

\* YCombinatorScraper.extract_linkedin_urls(job_url), an exception raised in
\* the try block (navigation, the waits or the evaluate).
ExtractLinkedinUrlsFails ==
    /\ ~extraction.called
    /\ \E e \in {"Timeout", "Error"} :
         extraction' = [extraction EXCEPT
                          !.called = TRUE,
                          !.result = FailedLinkedinResult(e)]
    /\ UNCHANGED <<serverVars, discovery, retry, manager, submit, evaluation, session, linkedin>>

NextExtraction ==
    \/ ExtractLinkedinUrls
    \/ ExtractLinkedinUrlsFails

SpecExtraction == InitExtraction /\ [][NextExtraction]_vars

----------------------------------------------------------------------------
\* One call of a function wrapped by with_retry. `outcomes` records what
\* each call of the wrapped function did, `sleeps` the arguments of
\* time.sleep, in order.

InitRetry ==
    /\ InitState
    /\ linkedin = NoLinkedin
    /\ session = NoSession
    /\ evaluation = NoEvaluation
    /\ submit = NoSubmit
    /\ submissions = 0
    /\ discovery = NoDiscovery
    /\ extraction = NoExtraction
    /\ manager = NoManager
    /\ \E c \in RetryConfigs :
         retry = [NoRetry EXCEPT !.MAX_RETRIES = c.MAX_RETRIES,
                                 !.RETRY_DELAY = c.RETRY_DELAY,
                                 !.state = "running"]

\* One iteration of the loop in which func returns.
WrapperCallReturns ==
    /\ retry.state = "running"
    /\ LoopContinues(retry)
    /\ \E v \in ReturnValues : retry' = AfterReturn(retry, v)
    /\ UNCHANGED <<serverVars, discovery, extraction, manager, submit, evaluation, session, linkedin>>

\* One iteration of the loop in which func raises.
WrapperCallRaises ==
    /\ retry.state = "running"
    /\ LoopContinues(retry)
    /\ \E e \in Exceptions : retry' = AfterException(retry, e)
    /\ UNCHANGED <<serverVars, discovery, extraction, manager, submit, evaluation, session, linkedin>>

\* The loop is over.
WrapperAfterLoop ==
    /\ retry.state = "running"
    /\ ~LoopContinues(retry)
    /\ retry' = AfterLoop(retry)
    /\ UNCHANGED <<serverVars, discovery, extraction, manager, submit, evaluation, session, linkedin>>

NextRetry ==
    \/ WrapperCallReturns
    \/ WrapperCallRaises
    \/ WrapperAfterLoop

SpecRetry == InitRetry /\ [][NextRetry]_vars

----------------------------------------------------------------------------
\* MaxRuns submissions handled concurrently. The handlers share the tracker
\* only; a handler's call of scraper.scrape works on its own scraper object
\* and is taken here as one step, with the result lists scrape can return.

InitConcurrent ==
    /\ InitState
    /\ linkedin = NoLinkedin
    /\ session = NoSession
    /\ evaluation = NoEvaluation
    /\ submit = NoSubmit
    /\ submissions = MaxRuns
    /\ discovery = NoDiscovery
    /\ extraction = NoExtraction
    /\ retry = NoRetry
    /\ manager = NoManager

\* What scrape returns: [] or a list of detail dicts, failed ones included.
ScrapeResults ==
    { <<>>, <<FailedDetails(JobA, "Timeout"), ExtractedDetails(JobB, PageBare)>> }

\* results = await scraper.scrape(url) (line 93); scrape catches every
\* exception and returns its results list.
Scrape(r) ==
    /\ pc[r] = "start_playwright"
    /\ \E res \in ScrapeResults : results' = [results EXCEPT ![r] = res]
    /\ pc' = [pc EXCEPT ![r] = "update"]
    /\ progress' = NoProgress
    /\ UNCHANGED unitVars
    /\ UNCHANGED <<submissions, job_id, response, trackerVars, scraper,
                   open_pages, job_urls, idx, details, trace>>

NextConcurrent ==
    \/ \E r \in Runs : StartScrape(r)
    \/ \E r \in Runs : ConstructScraper(r)
    \/ \E r \in Runs : Scrape(r)
    \/ \E r \in Runs : UpdateTracker(r)
    \/ \E r \in Runs : BuildResponse(r)
    \/ \E r \in Runs : ScrapeErrorBranch(r)

SpecConcurrent == InitConcurrent /\ [][NextConcurrent]_vars

----------------------------------------------------------------------------
\* One BrowserManager object of either class, opened and closed in any order.

InitBrowserManager ==
    /\ InitState
    /\ linkedin = NoLinkedin
    /\ session = NoSession
    /\ evaluation = NoEvaluation
    /\ submit = NoSubmit
    /\ submissions = 0
    /\ discovery = NoDiscovery
    /\ extraction = NoExtraction
    /\ retry = NoRetry
    /\ \E i \in ManagerImpls : manager = [NoManager EXCEPT !.impl = i]

\* get_browser() / __enter__()
ManagerOpen ==
    /\ manager.phase = "idle"
    /\ manager.created < MaxDrivers
    /\ \E o \in OpenOutcomes : manager' = OpenManager(manager, o)
    /\ UNCHANGED <<serverVars, discovery, extraction, retry, submit, evaluation, session, linkedin>>

\* close() / close_browser() called directly
ManagerClose ==
    /\ manager.phase = "idle"
    /\ manager.closes < MaxCloses
    /\ \E o \in QuitOutcomes : manager' = CloseManager(manager, o)
    /\ UNCHANGED <<serverVars, discovery, extraction, retry, submit, evaluation, session, linkedin>>

\* `with manager as driver:` calls __enter__; when __enter__ raises, the
\* with statement is left at once and __exit__ is not called. `entered` is
\* the driver self.driver holds when __enter__ is over.
WithEnter ==
    /\ manager.phase = "idle"
    /\ manager.created < MaxDrivers
    /\ \E o \in OpenOutcomes :
         LET m == OpenManager(manager, o) IN
         manager' = [m EXCEPT !.entered = m.driver,
                              !.phase = IF m.raised # None THEN "left"
                                        ELSE "body"]
    /\ UNCHANGED <<serverVars, discovery, extraction, retry, submit, evaluation, session, linkedin>>

\* The body of the with statement is over, by its end or by an exception:
\* __exit__ calls close() / close_browser().
WithExit ==
    /\ manager.phase = "body"
    /\ \E o \in QuitOutcomes :
         manager' = [CloseManager(manager, o) EXCEPT !.phase = "left"]
    /\ UNCHANGED <<serverVars, discovery, extraction, retry, submit, evaluation, session, linkedin>>

NextBrowserManager ==
    \/ ManagerOpen
    \/ ManagerClose
    \/ WithEnter
    \/ WithExit

SpecBrowserManager == InitBrowserManager /\ [][NextBrowserManager]_vars

----------------------------------------------------------------------------
\* One request to /submit.

InitSubmit ==
    /\ InitState
    /\ linkedin = NoLinkedin
    /\ session = NoSession
    /\ evaluation = NoEvaluation
    /\ submissions = 0
    /\ discovery = NoDiscovery
    /\ extraction = NoExtraction
    /\ retry = NoRetry
    /\ manager = NoManager
    /\ \E req \in SubmitRequests, cls \in ScraperClasses, site \in 0..MaxRecords,
          side_effect \in BOOLEAN :
         /\ cls = "YCombinatorScraper" => ~side_effect
         /\ submit = [NoSubmit EXCEPT !.request = req, !.cls = cls,
                                      !.site = site,
                                      !.side_effect = side_effect]

SubmitUrl ==
    /\ ~submit.called
    /\ \E csv_content \in {None, "csv"} :
         submit' = [submit EXCEPT
                      !.called = TRUE,
                      !.response = SubmitResponse(submit.request, submit.cls,
                                                  submit.site, submit.side_effect,
                                                  csv_content)]
    /\ UNCHANGED <<serverVars, discovery, extraction, retry, manager, evaluation, session, linkedin>>

NextSubmit == SubmitUrl

SpecSubmit == InitSubmit /\ [][NextSubmit]_vars

----------------------------------------------------------------------------
\* One evaluate of scrape_job_details on a loaded detail page.

InitEvaluation ==
    /\ InitState
    /\ linkedin = NoLinkedin
    /\ session = NoSession
    /\ submissions = 0
    /\ discovery = NoDiscovery
    /\ extraction = NoExtraction
    /\ retry = NoRetry
    /\ manager = NoManager
    /\ submit = NoSubmit
    /\ \E dp \in EvaluatedPages : evaluation = [NoEvaluation EXCEPT !.page = dp]

\* details = await page.evaluate(...) (lines 133-181)
EvaluateDetails ==
    /\ ~evaluation.called
    /\ evaluation' = [evaluation EXCEPT
                        !.called = TRUE,
                        !.result = ExtractedDetails(JobA, evaluation.page)]
    /\ UNCHANGED <<serverVars, discovery, extraction, retry, manager, submit, session, linkedin>>

NextEvaluation == EvaluateDetails

SpecEvaluation == InitEvaluation /\ [][NextEvaluation]_vars

----------------------------------------------------------------------------
\* One YCombinatorScraper taken through one `async with browser_context()`,
\* with calls of _get_page before, inside and after it.

MaxGetPageCalls == 2

\* _get_page (lines 80-96) on a scraper with fields s: the guard tests
\* `not self.context`, then self.context.new_page() either returns a page or
\* raises (logged and re-raised); a closed context cannot give a page.
GetPage(s) ==
    IF s.context = None THEN {"not_initialized"}
    ELSE IF s.context = "open" THEN {"page", "new_page_raised"}
    ELSE {"new_page_raised"}

\* browser_context, the try block up to the yield (lines 45-66): the fields
\* assigned when the yield is reached (ok) or when one of the three calls
\* raised.
SessionSetups(s) ==
    { [ok |-> TRUE, s |-> [playwright |-> "open", browser |-> "open",
                           context |-> "open"]],
      [ok |-> FALSE, s |-> s],
      [ok |-> FALSE, s |-> [s EXCEPT !.playwright = "open"]],
      [ok |-> FALSE, s |-> [s EXCEPT !.playwright = "open",
                                     !.browser = "open"]] }

\* `if self.<f>: await self.<f>.close()` when the close returns: the object
\* is closed, the attribute keeps referring to it.
CloseField(s, f) == IF s[f] = None THEN s ELSE [s EXCEPT ![f] = "closed"]

\* browser_context, finally (lines 70-77): the fields after the three
\* releases ran, or after one of them raised and the rest was skipped.
Released(s) ==
    LET c == CloseField(s, "context")
        b == CloseField(c, "browser")
        p == CloseField(b, "playwright")
    IN  {p} \cup (IF s.context # None THEN {s} ELSE {})
            \cup (IF c.browser # None THEN {c} ELSE {})
            \cup (IF b.playwright # None THEN {b} ELSE {})

InitSession ==
    /\ InitState
    /\ linkedin = NoLinkedin
    /\ submissions = 0
    /\ discovery = NoDiscovery
    /\ extraction = NoExtraction
    /\ retry = NoRetry
    /\ manager = NoManager
    /\ submit = NoSubmit
    /\ evaluation = NoEvaluation
    /\ session = NoSession

\* Entering browser_context: the setup reaches the yield, or raises, and then
\* the except re-raises and the finally releases what was acquired.
SessionEnter ==
    /\ session.phase = "before"
    /\ \E o \in SessionSetups(session.scraper) :
          IF o.ok
          THEN session' = [session EXCEPT !.scraper = o.s, !.phase = "inside"]
          ELSE \E rel \in Released(o.s) :
                 session' = [session EXCEPT !.scraper = rel, !.phase = "after"]
    /\ UNCHANGED <<serverVars, discovery, extraction, retry, manager, submit,
                   evaluation, linkedin>>

\* Leaving the body of browser_context: the finally block.
SessionExit ==
    /\ session.phase = "inside"
    /\ \E rel \in Released(session.scraper) :
          session' = [session EXCEPT !.scraper = rel, !.phase = "after"]
    /\ UNCHANGED <<serverVars, discovery, extraction, retry, manager, submit,
                   evaluation, linkedin>>

\* await scraper._get_page(), in whatever phase the scraper is.
CallGetPage ==
    /\ Len(session.calls) < MaxGetPageCalls
    /\ \E o \in GetPage(session.scraper) :
          session' = [session EXCEPT
                        !.calls = Append(@, [phase |-> session.phase,
                                             outcome |-> o])]
    /\ UNCHANGED <<serverVars, discovery, extraction, retry, manager, submit,
                   evaluation, linkedin>>

NextSession ==
    \/ SessionEnter
    \/ SessionExit
    \/ CallGetPage

SpecSession == InitSession /\ [][NextSession]_vars

----------------------------------------------------------------------------
\* One call of YCombinatorScraper.scrape_linkedin_urls(url).

\* The detail pages served to the loop: no section, or one.
LoopDocs == { doc \in DetailDocs : Len(doc) <= 1 }

\* `linkedin_urls = data.get('linkedin_urls', []); if linkedin_urls:
\* results.append(data)` (lines 469-475)
AppendIfLinks_Always(res, data) == Append(res, data)

AppendIfLinks(res, data) ==
    IF data.linkedin_urls # <<>> THEN Append(res, data) ELSE res

\* What a visit of one job URL was: links found, none found, the failed
\* dict of extract_linkedin_urls, or an exception out of it.
VisitKind(data) ==
    IF data.error # None THEN "failed"
    ELSE IF data.linkedin_urls = <<>> THEN "no_links"
    ELSE "links"

InitLinkedin ==
    /\ InitState
    /\ submissions = 0
    /\ discovery = NoDiscovery
    /\ extraction = NoExtraction
    /\ retry = NoRetry
    /\ manager = NoManager
    /\ submit = NoSubmit
    /\ evaluation = NoEvaluation
    /\ session = NoSession
    /\ linkedin = NoLinkedin

\* Lines 452-461: the session is entered and the listing scraped. An
\* exception of the setup or of scrape_job_listings is caught by the outer
\* except, which returns results; an empty listing returns [].
ScrapeLinkedinListing ==
    /\ linkedin.state = "start"
    /\ \/ linkedin' = [linkedin EXCEPT !.state = "returned",
                                        !.returned = linkedin.results]
       \/ \E dom \in ListingPages : \E found \in DiscoveredLists(dom) :
            IF found = <<>>
            THEN linkedin' = [linkedin EXCEPT !.state = "returned",
                                              !.returned = <<>>]
            ELSE linkedin' = [linkedin EXCEPT !.state = "loop", !.i = 1,
                                              !.job_urls = found]
    /\ UNCHANGED <<serverVars, discovery, extraction, retry, manager, submit,
                   evaluation, session>>

\* One iteration of the loop (lines 464-483): extract_linkedin_urls returns
\* the dict of the page or its failed dict, or raises (_get_page before its
\* try, page.close in its finally) and the loop continues.
ProcessJobUrl ==
    /\ linkedin.state = "loop"
    /\ linkedin.i <= Len(linkedin.job_urls)
    /\ \/ \E data \in { LinkedinResult(doc) : doc \in LoopDocs }
                       \cup { FailedLinkedinResult(e) : e \in {"Timeout", "Error"} } :
            linkedin' = [linkedin EXCEPT
                           !.i = @ + 1,
                           !.results = AppendIfLinks(@, data),
                           !.outcomes = Append(@, VisitKind(data))]
       \/ linkedin' = [linkedin EXCEPT !.i = @ + 1,
                                        !.outcomes = Append(@, "raised")]
    /\ UNCHANGED <<serverVars, discovery, extraction, retry, manager, submit,
                   evaluation, session>>

\* `return results` after the loop (line 486), or, when leaving the session
\* raised, that of the outer except (line 491).
ReturnLinkedinResults ==
    /\ linkedin.state = "loop"
    /\ linkedin.i > Len(linkedin.job_urls)
    /\ linkedin' = [linkedin EXCEPT !.state = "returned",
                                    !.returned = linkedin.results]
    /\ UNCHANGED <<serverVars, discovery, extraction, retry, manager, submit,
                   evaluation, session>>

NextLinkedin ==
    \/ ScrapeLinkedinListing
    \/ ProcessJobUrl
    \/ ReturnLinkedinResults

SpecLinkedin == InitLinkedin /\ [][NextLinkedin]_vars

----------------------------------------------------------------------------
\* Properties

Terminal == {"completed", "error"}

\* The handlers whose scraper.scrape call has returned.
ScrapeReturned(r) == pc[r] \in {"update", "respond", "except", "done"}
\* The handlers that have written the outcome of the run to the tracker.
TrackerWritten(r) == pc[r] \in {"respond", "except", "done"}

C2_OneWriteToTerminal ==
    [][\A j \in DOMAIN jobs :
         jobs'[j] # jobs[j] =>
           /\ jobs[j].status = "in_progress"
           /\ jobs'[j].status \in Terminal]_vars

\* C3: a job that is in the tracker has status completed or error once the
\* handler that created it has returned (nothing writes the record later).
C3_ReturnedHandlerLeftJobTerminal ==
    \A r \in Runs :
        (pc[r] = "done" /\ job_id[r] # NoJob)
            => jobs[job_id[r]].status \in Terminal

\* C4: a progress read of a job id that is not in the tracker answers 404
\* 'Job not found' and leaves the tracker as it was.
C4_UnknownIdNotFound ==
    [][(progress' # NoProgress /\ progress'.job_id \in JobIds \ DOMAIN jobs)
         => /\ progress'.code = 404
            /\ progress'.error = "Job not found"
            /\ jobs' = jobs]_vars

C4_Witness ==
    /\ progress.job_id \in JobIds \ DOMAIN jobs
    /\ progress.code = 404
    /\ jobs # << >>

\* C5: a job whose status is not completed carries no results (None or the
\* empty list).
C5_NoResultsUnlessCompleted ==
    \A j \in DOMAIN jobs :
        jobs[j].status # "completed"
            => (jobs[j].results = None \/ jobs[j].results = <<>>)

\* C6: a job's error message is set exactly when its status is error.
C6_ErrorMessageIffStatusError ==
    \A j \in DOMAIN jobs :
        (jobs[j].error # None) <=> (jobs[j].status = "error")

C6_Witness ==
    \E j \in DOMAIN jobs : jobs[j].status = "error" /\ jobs[j].error # None

\* C7: when starting playwright, launching the browser or creating the
\* context failed, the handler returns with the job in status error.
C7_SessionFailureEndsInError ==
    \A r \in Runs :
        (pc[r] = "done" /\ trace[r].session = "failed")
            => jobs[job_id[r]].status = "error"

\* C8: when loading the listing page failed, the handler returns with the
\* job in status error and the failure recorded on the record.
C8_ListingLoadFailureEndsInError ==
    \A r \in Runs :
        (pc[r] = "done" /\ trace[r].listing = "failed")
            => /\ jobs[job_id[r]].status = "error"
               /\ jobs[job_id[r]].error # None

\* A record of rec's results for URL u with every text field empty and the
\* error note set.
HasFailedRecord(res, u) ==
    /\ res # None
    /\ \E k \in DOMAIN res :
         /\ res[k].src = u
         /\ res[k].title = "" /\ res[k].company = ""
         /\ res[k].description = "" /\ res[k].location = ""
         /\ res[k].salary = ""
         /\ res[k].error # None

C10_EveryUrlAttemptedOnceInOrder ==
    \A r \in Runs :
        /\ Len(trace[r].attempted) <= Len(job_urls[r])
        /\ trace[r].attempted = SubSeq(job_urls[r], 1, Len(trace[r].attempted))
        /\ (ScrapeReturned(r) \/ pc[r] \in {"close_context", "close_browser",
                                             "stop_playwright"})
              => trace[r].attempted = job_urls[r]

C10_Witness ==
    \E r \in Runs :
        /\ ScrapeReturned(r)
        /\ Len(job_urls[r]) = 2
        /\ job_urls[r][1] \in trace[r].navTimedOut \cup trace[r].closeFailed
        /\ trace[r].attempted = job_urls[r]

\* How often u occurs in the list s.
Count(s, u) == Cardinality({ k \in DOMAIN s : s[k] = u })

\* The hrefs of the anchors the selector of scrape_job_listings numbered sel
\* matches on dom.
SelectorHrefs(dom, sel) == Range(MapHref(QuerySelectorAll(dom, sel)))

\* The selector of scrape_job_listings that decides on dom: the first one
\* that matches an element; 0 when none does.
WinningSelector(dom) ==
    IF AnySelectorMatches(dom)
    THEN CHOOSE sel \in 1..NumSelectors :
           /\ Len(QuerySelectorAll(dom, sel)) > 0
           /\ \A before \in 1..(sel - 1) : Len(QuerySelectorAll(dom, before)) = 0
    ELSE 0

\* The detail URLs a loaded page offers to each engine: the absolute
\* '/jobs/' URLs of the deciding selector (scraper), of any anchor
\* (simple_scraper, whose last selector is 'a').
DetailUrlsOffered(d) ==
    IF d.engine = "scraper"
    THEN IF WinningSelector(d.dom) = 0 THEN {}
         ELSE { h \in SelectorHrefs(d.dom, WinningSelector(d.dom)) :
                  HasJobs(h) /\ StartsWithHttp(h) }
    ELSE { h \in Range(MapHref(d.dom)) : HasJobs(h) /\ StartsWithHttp(h) }

\* C11: one call of discovery returns no URL twice; when the page offers
\* detail URLs, the returned list holds each distinct one exactly once.
C11_DiscoveryReturnsEachUrlOnce ==
    discovery.called =>
      /\ \A u \in Hrefs : Count(discovery.job_urls, u) <= 1
      /\ (discovery.loaded /\ DetailUrlsOffered(discovery) # {}) =>
            \A u \in Hrefs :
              Count(discovery.job_urls, u) =
                IF u \in DetailUrlsOffered(discovery) THEN 1 ELSE 0

\* Three links of which two are unique gave two URLs.
C11_Witness ==
    /\ discovery.called /\ discovery.loaded
    /\ discovery.engine = "scraper"
    /\ Len(discovery.dom) = 3
    /\ \A k \in 1..3 : HasCompanies(discovery.dom[k].href)
                        /\ HasJobs(discovery.dom[k].href)
    /\ Cardinality(Range(MapHref(discovery.dom))) = 2
    /\ Len(discovery.job_urls) = 2

\* The hrefs of the anchors the selector of simple_scraper numbered sel
\* matches on dom.
SimpleSelectorHrefs(dom, sel) == Range(MapHref(SimpleQuerySelectorAll(dom, sel)))

\* The first selector of simple_scraper that matches an element of dom; 0
\* when none does.
SimpleWinningSelector(dom) ==
    IF dom = <<>> THEN 0
    ELSE CHOOSE sel \in 1..SimpleNumSelectors :
           /\ Len(SimpleQuerySelectorAll(dom, sel)) > 0
           /\ \A before \in 1..(sel - 1) :
                 Len(SimpleQuerySelectorAll(dom, before)) = 0

\* The result of a call holds only URLs of the first selector that matched.
OnlyFirstMatch(d) ==
    IF d.engine = "scraper"
    THEN IF WinningSelector(d.dom) = 0 THEN d.job_urls = <<>>
         ELSE Range(d.job_urls) \subseteq SelectorHrefs(d.dom, WinningSelector(d.dom))
    ELSE IF SimpleWinningSelector(d.dom) = 0 THEN d.job_urls = <<>>
         ELSE Range(d.job_urls) \subseteq
                SimpleSelectorHrefs(d.dom, SimpleWinningSelector(d.dom))

\* C12 as claimed: discovery, in scraper.py and in simple_scraper.py, is
\* first-match-wins: the result holds only URLs found by the first selector
\* that matched an element.
C12_FirstMatchWinsEverywhere ==
    (discovery.called /\ discovery.loaded) => OnlyFirstMatch(discovery)

\* C12 as amended: scrape_job_listings is first-match-wins (URLs only a later
\* selector finds are absent); the discovery of simple_scraper consults every
\* selector and keeps the absolute '/jobs/' URLs of each of them.
C12_FirstMatchWinsInScrapeJobListings ==
    (discovery.called /\ discovery.loaded) =>
      /\ discovery.engine = "scraper" => OnlyFirstMatch(discovery)
      /\ discovery.engine = "simple_scraper" =>
            \A sel \in 1..SimpleNumSelectors :
              \A h \in SimpleSelectorHrefs(discovery.dom, sel) :
                (HasJobs(h) /\ StartsWithHttp(h)) => h \in Range(discovery.job_urls)

\* scrape_job_listings, its first selector matching, left out a detail URL
\* that only its second selector finds.
C12_Witness ==
    /\ discovery.called /\ discovery.loaded
    /\ discovery.engine = "scraper"
    /\ WinningSelector(discovery.dom) = 1
    /\ discovery.job_urls # <<>>
    /\ \E h \in SelectorHrefs(discovery.dom, 2) :
         /\ HasJobs(h) /\ StartsWithHttp(h)
         /\ h \notin SelectorHrefs(discovery.dom, 1)
         /\ h \notin Range(discovery.job_urls)

\* C13: when the listing page loaded and no selector of discovery matched an
\* element, the handler returns with the job in status completed, an empty
\* results list and no error.
C13_NoCandidatesEndsCompleted ==
    \A r \in Runs :
        (pc[r] = "done" /\ trace[r].listing = "loaded" /\ ~trace[r].matched)
            => /\ jobs[job_id[r]].status = "completed"
               /\ jobs[job_id[r]].results = <<>>
               /\ jobs[job_id[r]].error = None

\* C14: in every record link extraction produces, on the success path and
\* on the failure path, founder_linkedin_urls is a subset of linkedin_urls.
C14_FounderUrlsSubsetOfAll ==
    extraction.called =>
        Range(extraction.result.founder_linkedin_urls)
            \subseteq Range(extraction.result.linkedin_urls)

\* Some space-delimited token of name, longer than two characters, occurs
\* in url when case is ignored.
TokenOccurs(url, name) ==
    \E i \in 1..Len(name) : \E j \in i..Len(name) :
        /\ j - i + 1 > 2
        /\ ~Includes(SubSeq(name, i, j), " ")
        /\ (i = 1 \/ SubSeq(name, i - 1, i - 1) = " ")
        /\ (j = Len(name) \/ SubSeq(name, j + 1, j + 1) = " ")
        /\ Includes(ToLowerCase(url), ToLowerCase(SubSeq(name, i, j)))

\* C15: when the founders section yields no link and a founder name was
\* extracted, a harvested link is founder-associated exactly when a token of
\* a founder name occurs in it; when the section yields a link, the
\* founder-associated links are the section's links and none is added by
\* name; with no section link and no name, no link is founder-associated.
C15_NameFallbackOnlyWithoutSectionLinks ==
    (extraction.called /\ extraction.result.error = None) =>
      LET res   == extraction.result
          names == res.founder_names
          sectionLinks == founderLinks(extraction.doc)
      IN /\ (sectionLinks = <<>> /\ names # <<>>) =>
              /\ Range(res.founder_linkedin_urls) \subseteq Range(res.linkedin_urls)
              /\ \A u \in Range(res.linkedin_urls) :
                    u \in Range(res.founder_linkedin_urls)
                      <=> \E n \in 1..Len(names) : TokenOccurs(u, names[n])
         /\ sectionLinks # <<>> => res.founder_linkedin_urls = sectionLinks
         /\ (sectionLinks = <<>> /\ names = <<>>) => res.founder_linkedin_urls = <<>>

\* The fallback classified a link by a name in another case, and left
\* another link to the company.
C15_Witness ==
    /\ extraction.called /\ extraction.result.error = None
    /\ founderLinks(extraction.doc) = <<>>
    /\ extraction.result.founder_names = <<"Jane Doe">>
    /\ LiJANE.href \in Range(extraction.result.founder_linkedin_urls)
    /\ LiBob.href \in Range(extraction.result.company_linkedin_urls)

\* C16: every linkedin link inside an element that matches the founders
\* selector is founder-associated, for every such element of the page.
C16_EveryFoundersSectionLinkIsFounder ==
    (extraction.called /\ extraction.result.error = None) =>
      \A k \in 1..Len(extraction.doc) :
        IsFoundersSection(extraction.doc[k]) =>
          \A h \in Range(LinkedinHrefs(extraction.doc[k].links)) :
            Includes(h, "linkedin.com") =>
              h \in Range(extraction.result.founder_linkedin_urls)

\* C17: every link of linkedin_urls is in exactly one of
\* founder_linkedin_urls and company_linkedin_urls, and
\* company_linkedin_urls is linkedin_urls without the founder-associated
\* links, in the same order.
C17_ClassificationPartitionsLinks ==
    extraction.called =>
      LET res == extraction.result
          NotFounder(u) == u \notin Range(res.founder_linkedin_urls)
      IN /\ \A u \in Range(res.linkedin_urls) :
              (u \in Range(res.founder_linkedin_urls))
                  # (u \in Range(res.company_linkedin_urls))
         /\ res.company_linkedin_urls = SelectSeq(res.linkedin_urls, NotFounder)

\* Three harvested links, one of them twice, split between the two lists.
C17_Witness ==
    /\ extraction.called /\ extraction.result.error = None
    /\ Len(extraction.result.linkedin_urls) = 3
    /\ Cardinality(Range(extraction.result.linkedin_urls)) = 2
    /\ extraction.result.founder_linkedin_urls # <<>>
    /\ extraction.result.company_linkedin_urls # <<>>

\* The wrapper has returned or raised.
RetryDone == retry.state \in {"returned", "raised"}
\* Every call of the wrapped function so far raised.
AllCallsFailed == \A k \in 1..Len(retry.outcomes) : retry.outcomes[k] \in Exceptions

\* C18: the wrapped function is never called more than MAX_RETRIES times;
\* when it raised on every call, the wrapper ends after exactly MAX_RETRIES
\* calls by raising the exception of the last call.
C18_AllFailMeansMaxRetriesCallsThenLastRaised ==
    /\ Len(retry.outcomes) <= retry.MAX_RETRIES
    /\ (retry.state = "running" /\ AllCallsFailed
          /\ Len(retry.outcomes) < retry.MAX_RETRIES) => LoopContinues(retry)
    /\ (RetryDone /\ AllCallsFailed) =>
          /\ retry.state = "raised"
          /\ Len(retry.outcomes) = retry.MAX_RETRIES
          /\ retry.raised = retry.outcomes[retry.MAX_RETRIES]

\* Three failures, the last exception another one than the first.
C18_Witness ==
    /\ retry.state = "raised"
    /\ retry.MAX_RETRIES = ShippedRetryConfig.MAX_RETRIES
    /\ retry.outcomes = <<"ValueError", "ValueError", "KeyError">>
    /\ retry.raised = "KeyError"

\* C19: when the wrapped function returns, the wrapper has ended, returns
\* that call's value, and every earlier call raised: a first success on
\* call k means exactly k calls; a success on the first call means one call
\* and no sleep.
C19_FirstSuccessEndsTheCall ==
    \A k \in 1..Len(retry.outcomes) :
        retry.outcomes[k] \in ReturnValues =>
          /\ k = Len(retry.outcomes)
          /\ k <= retry.MAX_RETRIES
          /\ retry.state = "returned"
          /\ retry.returned = retry.outcomes[k]
          /\ \A j \in 1..(k - 1) : retry.outcomes[j] \in Exceptions
          /\ k = 1 => retry.sleeps = <<>>

\* Two failures, then a success on the third call.
C19_Witness ==
    /\ retry.state = "returned"
    /\ retry.MAX_RETRIES = ShippedRetryConfig.MAX_RETRIES
    /\ retry.outcomes = <<"ValueError", "KeyError", "success">>
    /\ retry.returned = "success"

\* The calls of the wrapped function that raised and were followed, or are
\* about to be followed, by another call.
FailuresWithRetry ==
    { k \in 1..Len(retry.outcomes) :
        retry.outcomes[k] \in Exceptions /\ k < retry.MAX_RETRIES }

\* C20: the wrapper sleeps once after each failed attempt that another
\* attempt follows, RETRY_DELAY * 2^a seconds after attempt a (from 0), and
\* not after the final attempt.
C20_DelaysDoubleFromRetryDelay ==
    /\ Len(retry.sleeps) = Cardinality(FailuresWithRetry)
    /\ \A a \in 0..(Len(retry.sleeps) - 1) :
          retry.sleeps[a + 1] = retry.RETRY_DELAY * 2^a

\* Four attempts that all failed: three sleeps, none after the last attempt.
C20_Witness ==
    /\ retry.state = "raised"
    /\ retry.MAX_RETRIES = 4
    /\ retry.RETRY_DELAY = ShippedRetryConfig.RETRY_DELAY
    /\ retry.sleeps = <<2, 4, 8>>

\* C21: under the shipped Config, a function that raises twice and then
\* returns makes the wrapper sleep exactly twice, 1 second and then 2.
C21_ShippedBackoffIsOneThenTwoSeconds ==
    ( /\ retry.MAX_RETRIES = ShippedRetryConfig.MAX_RETRIES
      /\ retry.RETRY_DELAY = ShippedRetryConfig.RETRY_DELAY
      /\ retry.state = "returned"
      /\ Len(retry.outcomes) = 3
      /\ retry.outcomes[1] \in Exceptions
      /\ retry.outcomes[2] \in Exceptions
      /\ retry.outcomes[3] \in ReturnValues )
        => retry.sleeps = <<1, 2>>

\* C22: the navigation of scrape_job_details sleeps NAV_RETRY_SLEEP * 2^a
\* after its timed-out attempt a (from 0), makes max_retries attempts at
\* most, and returns the failed record when the last attempt timed out.
C22_NavigationBacksOffExponentially ==
    \A r \in Runs :
        pc[r] = "close_detail_page" =>
          /\ Len(trace[r].navSleeps) <= max_retries - 1
          /\ \A a \in 0..(Len(trace[r].navSleeps) - 1) :
                trace[r].navSleeps[a + 1] = NAV_RETRY_SLEEP * 2^a
          /\ job_urls[r][idx[r]] \in trace[r].navTimedOut =>
                details[r].error # None

\* C23: when the page.goto of the listing page timed out and discovery gave
\* up, the goto had been tried again.
C23_ListingLoadRetriedAfterTimeout ==
    \A r \in Runs :
        (trace[r].listing = "failed" /\ trace[r].listingGotos[1] = "timeout")
            => Len(trace[r].listingGotos) > 1

\* C24: between the fetch of a detail URL and the fetch of the next one the
\* run has slept at least REQUEST_DELAY seconds, whatever happened to the
\* earlier URL.
C24_RateLimitBetweenConsecutiveFetches ==
    \A r \in Runs :
        \A k \in 2..Len(trace[r].attempted) :
            /\ Len(trace[r].pauses) >= k - 1
            /\ trace[r].pauses[k - 1] >= REQUEST_DELAY

\* C25: once scrape has returned, a resource of the session that was
\* acquired is still open only if its own release raised: the failure of one
\* release does not leave another resource unreleased.
C25_EveryAcquiredResourceReleased ==
    \A r \in Runs :
        ScrapeReturned(r) =>
            \A res \in {"playwright", "browser", "context"} :
                scraper[r][res] = "open" => res \in trace[r].releaseFailed

\* The driver instances whose quit() was called more than once.
QuitTwice(m) ==
    {d \in 1..MaxDrivers :
        Cardinality({i \in DOMAIN m.quits : m.quits[i] = d}) > 1}

\* C26: every call of close leaves driver = None and raises nothing; with
\* no driver it quits nothing, with a driver it quits that driver, and no
\* driver is ever quit twice.
C26_CloseIsIdempotentAndSafe ==
    [][ manager'.closes = manager.closes + 1 =>
          /\ manager'.driver = NoDriver
          /\ manager'.raised = None
          /\ manager.driver = NoDriver => manager'.quits = manager.quits
          /\ manager.driver # NoDriver =>
                manager'.quits = Append(manager.quits, manager.driver)
          /\ QuitTwice(manager') = {} ]_vars

\* C27: when the context or the browser of a run has been closed, the
\* tracker already holds the terminal status of the run's job.
C27_TerminalStatusBeforeSessionRelease ==
    \A r \in Runs :
        (scraper[r].context = "closed" \/ scraper[r].browser = "closed") =>
            /\ job_id[r] \in DOMAIN jobs
            /\ jobs[job_id[r]].status \in Terminal

\* C28: no step removes a job id from the tracker, and a progress read of
\* an id the tracker holds answers with that job's record (its status and
\* results), never with NotFound.
C28_JobsNeverRemoved ==
    [][ /\ DOMAIN jobs \subseteq DOMAIN jobs'
        /\ progress'.job_id \in DOMAIN jobs =>
              /\ progress'.code # 404
              /\ progress'.status = jobs'[progress'.job_id].status
              /\ progress'.data = jobs'[progress'.job_id].results ]_vars

\* A progress read of a job that completed earlier answers 200 with the
\* record's status.
C28_Witness ==
    /\ progress.job_id \in DOMAIN jobs
    /\ jobs[progress.job_id].status = "completed"
    /\ progress.code = 200
    /\ progress.status = "completed"
    /\ \E r \in Runs : pc[r] = "done" /\ job_id[r] = progress.job_id

\* C29: in every step of concurrent handlers, the handlers that have a job
\* id have pairwise distinct ids, and the handler that takes the step leaves
\* every record but the one of its own id as it was and adds no other id.
C29_EachJobWrittenByItsOwnRun ==
    [][ /\ \A r1, r2 \in Runs :
              (r1 # r2 /\ job_id'[r1] # NoJob /\ job_id'[r2] # NoJob)
                  => job_id'[r1] # job_id'[r2]
        /\ \A r \in Runs :
              pc'[r] # pc[r] =>
                /\ DOMAIN jobs' \ DOMAIN jobs \subseteq {job_id'[r]}
                /\ \A j \in DOMAIN jobs :
                      j # job_id'[r] => (j \in DOMAIN jobs' /\ jobs'[j] = jobs[j])
        /\ (\A r \in Runs : pc'[r] = pc[r]) => jobs' = jobs ]_vars

\* Two handlers under way at once, each with its own record: one has
\* written completed while the other's job is still in progress.
C29_Witness ==
    \E r1, r2 \in Runs :
        /\ r1 # r2
        /\ job_id[r1] \in DOMAIN jobs /\ job_id[r2] \in DOMAIN jobs
        /\ job_id[r1] # job_id[r2]
        /\ pc[r1] = "update" /\ jobs[job_id[r1]].status = "in_progress"
        /\ pc[r2] = "done" /\ jobs[job_id[r2]].status = "completed"
        /\ jobs[job_id[r2]].results # <<>>

\* C30: no job record exists for a URL whose host is not one of the target
\* site's, and a submission answered 400 has no job id, no scraper and no
\* browser session.
C30_OffSiteUrlRejectedBeforeCore ==
    /\ \A j \in DOMAIN jobs : Netloc(jobs[j].url) \in ALLOWED_DOMAINS
    /\ \A r \in Runs :
          response[r].code = 400 =>
            /\ job_id[r] = NoJob
            /\ ~trace[r].constructed
            /\ trace[r].session = "none"

\* A request to /submit that passes every check of the request.
ValidSubmission(req) ==
    /\ ~req.too_large /\ req.is_json /\ req.body # "no_url"
    /\ validate_url(req.body)
    /\ response_format(req) \in {"csv", "json"}

NoDuplicates(seq) ==
    \A i, j \in 1..Len(seq) : seq[i] = seq[j] => i = j

\* C32: the linkedin_urls of the record extract_linkedin_urls produces hold
\* no URL twice.
C32_LinkedinUrlsHoldNoDuplicate ==
    extraction.called => NoDuplicates(extraction.result.linkedin_urls)

\* C33: on a listing page that keeps candidates behind its load-more
\* control, scrape_job_listings triggers the control (at most MAX_PAGES
\* times) and returns the candidates the triggers reveal.
C33_LoadMoreUntilExhaustedOrCeiling ==
    ( /\ discovery.called /\ discovery.loaded
      /\ discovery.engine = "scraper" )
        => /\ discovery.triggers <= MAX_PAGES
           /\ discovery.more # <<>> =>
                 /\ discovery.triggers >= 1
                 /\ \A k \in 1..Len(discovery.more) :
                       \A i \in 1..Len(discovery.more[k]) :
                           SelectorMatches(1, discovery.more[k][i]) =>
                             \E n \in 1..Len(discovery.job_urls) :
                                 discovery.job_urls[n] = discovery.more[k][i].href

\* A selector outcome that is a non-empty text.
IsMatch(v) == v # Absent /\ v # Throws /\ v # ""

\* The value a field must get from its selector outcomes: that of the first
\* selector with a non-empty text, '' when there is none.
FirstNonEmpty(outcomes) ==
    IF \E i \in 1..Len(outcomes) : IsMatch(outcomes[i])
    THEN outcomes[CHOOSE i \in 1..Len(outcomes) :
                    /\ IsMatch(outcomes[i])
                    /\ \A j \in 1..(i - 1) : ~IsMatch(outcomes[j])]
    ELSE ""

\* C34: every field of the extracted dict is the first non-empty match of
\* that field's own selector list, or '' when none matches; it is a
\* function of that field's selectors alone, whatever the other fields'
\* selectors miss or throw.
C34_FieldIsFirstNonEmptyMatch ==
    evaluation.called =>
        /\ evaluation.result.title = FirstNonEmpty(evaluation.page.title)
        /\ evaluation.result.company = FirstNonEmpty(evaluation.page.company)
        /\ evaluation.result.description
              = FirstNonEmpty(evaluation.page.description)
        /\ evaluation.result.location = FirstNonEmpty(evaluation.page.location)
        /\ evaluation.result.salary = FirstNonEmpty(evaluation.page.salary)
        /\ evaluation.result.error = None

\* A page on which the company's and the salary's selectors all throw while
\* the title is found after a blank and a throwing selector, and the
\* location by its last selector.
C34_Witness ==
    /\ evaluation.called
    /\ evaluation.page.company = <<Throws, Throws, Throws, Throws>>
    /\ evaluation.page.salary = <<Throws, Throws, Throws>>
    /\ evaluation.page.title = <<"", Throws, "Engineer", Absent, "YC Jobs">>
    /\ evaluation.page.location = <<Throws, Absent, "Berlin">>
    /\ evaluation.result.title = "Engineer"
    /\ evaluation.result.location = "Berlin"
    /\ evaluation.result.company = ""
    /\ evaluation.result.salary = ""

\* C35: when a with statement on the manager has been left, the browser
\* the manager held at the end of __enter__ has been quit.
C35_WithStatementQuitsItsBrowser ==
    (manager.phase = "left" /\ manager.entered # NoDriver) =>
        \E i \in 1..Len(manager.quits) : manager.quits[i] = manager.entered

\* The pages of a run's context that are open and whose close() has not
\* been called.
PagesInUse(r) == open_pages[r] - trace[r].pageClosesFailed

\* Where a handler is about to open a page, and where it is once the body
\* of browser_context has been left.
AboutToOpenPage(r) == pc[r] \in {"get_listing_page", "get_detail_page"}
BodyLeft(r) ==
    pc[r] \in {"close_context", "close_browser", "stop_playwright", "update",
               "respond", "except", "done"}

C37_ScrapeNeverRaisesToTheRoute ==
    [][ \A r \in Runs :
          /\ (pc'[r] = "except" /\ pc[r] # "except") => pc[r] = "respond"
          /\ (pc'[r] = "update" /\ pc[r] # "update") => results'[r] = results[r]
          /\ (pc'[r] = "respond" /\ pc[r] = "update") =>
                /\ jobs'[job_id[r]].status = "completed"
                /\ jobs'[job_id[r]].results = results[r] ]_vars

\* A run in which closing a resource of the session raised after a record
\* had been accumulated: scrape returned the record and the job completed.
C37_Witness ==
    \E r \in Runs :
        /\ pc[r] = "respond"
        /\ trace[r].releaseFailed # {}
        /\ Len(results[r]) >= 1
        /\ jobs[job_id[r]].status = "completed"
        /\ jobs[job_id[r]].results = results[r]

\* C38: a job id that a response of start_scrape carries is the id of a
\* record whose status is completed or error, and a progress read of that
\* id answers with that terminal status.
C38_IssuedJobIdIsAlreadyTerminal ==
    \A r \in Runs :
        response[r].job_id # NoJob =>
            /\ response[r].job_id \in DOMAIN jobs
            /\ jobs[response[r].job_id].status \in Terminal
            /\ ProgressResponse(jobs, response[r].job_id).status \in Terminal

\* A client got its job id from a 500 response and its progress read of
\* that id answered with status error.
C38_Witness ==
    \E r \in Runs :
        /\ response[r].code = 500
        /\ response[r].job_id # NoJob
        /\ progress.job_id = response[r].job_id
        /\ progress.status = "error"

\* C39: every call of _get_page made before browser_context is entered or
\* after it has exited raises 'Browser context not initialized'.
C39_GetPageOutsideSessionIsNotInitialized ==
    \A i \in 1..Len(session.calls) :
        session.calls[i].phase # "inside" =>
            session.calls[i].outcome = "not_initialized"

\* C40: every record of the list scrape_linkedin_urls returns has a
\* non-empty linkedin_urls, and the list holds one record per visited page
\* on which links were found: pages without a link, and pages whose
\* extraction failed, add nothing.
C40_ReturnedRecordsHoldLinks ==
    linkedin.state = "returned" =>
        /\ \A k \in 1..Len(linkedin.returned) :
              linkedin.returned[k].linkedin_urls # <<>>
        /\ Len(linkedin.returned) =
              Cardinality({ k \in 1..Len(linkedin.outcomes) :
                              linkedin.outcomes[k] = "links" })

\* Two job URLs were discovered; one page had links, the other had none or
\* its extraction failed, and one record was returned.
C40_Witness ==
    /\ linkedin.state = "returned"
    /\ Len(linkedin.job_urls) = 2
    /\ Len(linkedin.returned) = 1
    /\ \E k \in 1..Len(linkedin.outcomes) :
          linkedin.outcomes[k] \in {"no_links", "failed"}

====
